---- MODULE Spec2Model ----
(***************************************************************************)
(* NYC taxi analytics backend (server.py): the trip collection, the seeded *)
(* sample generator behind POST /ingest-taxi-data, the three aggregations  *)
(* behind GET /analytics/overview, /hourly and /zones, and the two test    *)
(* endpoints.  Every handler is a coroutine: it is taken one step at a     *)
(* time, a step ending where the handler awaits the database, and the      *)
(* steps of the requests in flight interleave freely.                      *)
(*                                                                         *)
(* Numbers.  What the generator draws and computes are Python floats, and  *)
(* the model computes them bit for bit.  What a trip stores after          *)
(* round(x, 1) is an integer count of tenths, after round(x, 2) of         *)
(* hundredths (cents); percentages rounded to one decimal are in tenths of *)
(* a percent (1000 = 100.0 %).                                             *)
(***************************************************************************)
EXTENDS Integers, Sequences, FiniteSets, Bags, TLC

VARIABLES
    store,          \* db.taxi_trips, in natural (insertion) order
    response,       \* the HTTP response returned last
    ingests,        \* how many ingest requests have called the generator so far
    pending,        \* the requests in flight, each suspended at an await (a bag)
    returned,       \* history: how many ingest requests have returned
    overlapped      \* history: an ingest request was called while another
                    \* was in flight

vars == <<store, response, ingests, pending, returned, overlapped>>

(***************************************************************************)
(* Bounds of the model.                                                    *)
(***************************************************************************)
MaxRun == 22        \* longest run of documents with pairwise distinct zones
MaxExtra == 2       \* documents chosen freely before and after the run
MaxLeftover == 1    \* documents in the collection when the server starts
MaxIngests == 2     \* ingest requests in one behaviour
MaxInFlight == 2    \* requests in flight at once

(***************************************************************************)
(* Program constants.                                                      *)
(***************************************************************************)
DelayThreshold == 10        \* is_delayed = wait_time > 10
TopZones == 20              \* result[:20]
HoursPerDay == 24           \* range(24)
NumZones == 265             \* np.random.randint(1, 266)
MinDuration == 5            \* max(5, ...)
BaseFare == 3               \* base_fare = 3.0
NumTrips == 1000            \* num_trips: int = 1000

(***************************************************************************)
(* Arithmetic helpers.  A loop over a list is written as the loop over the *)
(* index range lo..hi, taken as its first half and then its second half;   *)
(* the test on `first` makes the first half finish before the second       *)
(* starts, and both of its branches carry the same value on.               *)
(***************************************************************************)
\* What a division yields when it raises ZeroDivisionError (every number the
\* aggregations compute is >= 0).
ZeroDivisionError == 0 - 1

RECURSIVE SumFrom(_, _, _, _)
\* acc + xs[lo] + ... + xs[hi]
SumFrom(acc, xs, lo, hi) ==
    IF lo > hi THEN acc
    ELSE IF lo = hi THEN acc + xs[lo]
    ELSE LET first == SumFrom(acc, xs, lo, (lo + hi) \div 2)
         IN  IF first = acc THEN SumFrom(acc, xs, (lo + hi) \div 2 + 1, hi)
             ELSE SumFrom(first, xs, (lo + hi) \div 2 + 1, hi)

\* sum(xs) over a list of ints, or of booleans counted as 0 and 1
SumSeq(xs) == SumFrom(0, xs, 1, Len(xs))

\* sum(xs) over a list of booleans (True counts 1)
SumBool(xs) == SumSeq([i \in 1..Len(xs) |-> IF xs[i] THEN 1 ELSE 0])

(***************************************************************************)
(* Python floats.  A float is a binary64: 53 significant bits times a      *)
(* power of two, and every operation yields the float nearest the exact    *)
(* result, a tie going to the even one.  A mantissa does not fit a number  *)
(* of the model checker, so the model keeps it as a list of limbs, least   *)
(* significant first, without leading zero limbs (zero is the empty        *)
(* list).                                                                  *)
(***************************************************************************)
RECURSIVE BitsOf(_)
\* int.bit_length
BitsOf(n) == IF n = 0 THEN 0 ELSE 1 + BitsOf(n \div 2)

Limb == 2^15
LimbBits == BitsOf(Limb - 1)

RECURSIVE Big(_)
\* the limbs of a natural number
Big(n) == IF n = 0 THEN <<>> ELSE <<n % Limb>> \o Big(n \div Limb)

RECURSIVE Small(_)
\* the natural number of a list of limbs
Small(a) == IF a = <<>> THEN 0 ELSE Head(a) + Limb * Small(Tail(a))

RECURSIVE Trim(_)
Trim(a) ==
    IF a = <<>> THEN a
    ELSE IF a[Len(a)] = 0 THEN Trim(SubSeq(a, 1, Len(a) - 1)) ELSE a

RECURSIVE BigAdd(_, _, _)
\* a + b + carry
BigAdd(a, b, carry) ==
    IF a = <<>> /\ b = <<>> THEN Big(carry)
    ELSE LET x == IF a = <<>> THEN 0 ELSE Head(a)
             y == IF b = <<>> THEN 0 ELSE Head(b)
             s == x + y + carry
         IN  <<s % Limb>> \o BigAdd(IF a = <<>> THEN a ELSE Tail(a),
                                    IF b = <<>> THEN b ELSE Tail(b),
                                    s \div Limb)

RECURSIVE BigTimes(_, _, _)
\* a * s + carry, for 1 <= s <= Limb
BigTimes(a, s, carry) ==
    IF a = <<>> THEN Big(carry)
    ELSE LET p == Head(a) * s + carry
         IN  <<p % Limb>> \o BigTimes(Tail(a), s, p \div Limb)

RECURSIVE BigMul(_, _)
\* a * b
BigMul(a, b) ==
    IF a = <<>> \/ b = <<>> THEN <<>>
    ELSE LET rest == BigMul(a, Tail(b))
             first == IF Head(b) = 0 THEN <<>> ELSE BigTimes(a, Head(b), 0)
         IN  BigAdd(first, IF rest = <<>> THEN rest ELSE <<0>> \o rest, 0)

RECURSIVE BigDivLimbs(_, _)
\* the limbs of a \div d and the remainder a % d, for 1 <= d < 2 * Limb
BigDivLimbs(a, d) ==
    IF a = <<>> THEN [q |-> <<>>, r |-> 0]
    ELSE LET upper == BigDivLimbs(Tail(a), d)
             cur == upper.r * Limb + Head(a)
         IN  [q |-> <<cur \div d>> \o upper.q, r |-> cur % d]

BigDivMod(a, d) ==
    LET qr == BigDivLimbs(a, d) IN [q |-> Trim(qr.q), r |-> qr.r]

\* int.bit_length of a
BitLen(a) ==
    IF a = <<>> THEN 0 ELSE LimbBits * (Len(a) - 1) + BitsOf(a[Len(a)])

\* a << s
ShiftLeft(a, s) ==
    IF a = <<>> THEN a
    ELSE [i \in 1..(s \div LimbBits) |-> 0] \o BigTimes(a, 2^(s % LimbBits), 0)

\* a >> s
ShiftRight(a, s) ==
    LET k == s \div LimbBits
    IN  IF k >= Len(a) THEN <<>>
        ELSE BigDivMod(SubSeq(a, k + 1, Len(a)), 2^(s % LimbBits)).q

\* bit i of a (bit 0 the least significant)
Bit(a, i) ==
    LET k == i \div LimbBits
    IN  IF k >= Len(a) THEN 0 ELSE (a[k + 1] \div 2^(i % LimbBits)) % 2

\* a % 2^i # 0
AnyBitBelow(a, i) ==
    LET k == i \div LimbBits
    IN  \/ \E j \in 1..Len(a) : j <= k /\ a[j] # 0
        \/ k < Len(a) /\ a[k + 1] % 2^(i % LimbBits) # 0

\* a / 2^s (s >= 1) to the nearest integer, a tie to the even one; inexact
\* says that the number rounded lies above a, by less than one
RoundShift(a, s, inexact) ==
    LET q == ShiftRight(a, s)
        half == Bit(a, s - 1) = 1
        more == inexact \/ AnyBitBelow(a, s - 1)
        odd == Bit(a, s) = 1
    IN  IF half /\ (more \/ odd) THEN BigAdd(q, <<>>, 1) ELSE q

MantissaBits == 53

\* the float nearest m * 2^e (or a number above it by less than 2^e, when
\* inexact): the float [m, e] stands for m * 2^e, m of at most 53 bits
Nearest(m, e, inexact) ==
    LET excess == BitLen(m) - MantissaBits
    IN  IF excess <= 0 THEN [m |-> m, e |-> e]
        ELSE [m |-> RoundShift(m, excess, inexact), e |-> e + excess]

\* float(n) for an int 0 <= n < 2^31
FloatOfInt(n) == [m |-> Big(n), e |-> 0]

\* x + y
FloatAdd(x, y) ==
    LET e == IF x.e <= y.e THEN x.e ELSE y.e
    IN  Nearest(BigAdd(ShiftLeft(x.m, x.e - e), ShiftLeft(y.m, y.e - e), 0),
                e, FALSE)

\* x * y
FloatMul(x, y) == Nearest(BigMul(x.m, y.m), x.e + y.e, FALSE)

\* x / d for an int 1 <= d < 2 * Limb: the quotient is taken to at least 56
\* bits and rounded once
FloatDiv(x, d) ==
    LET s == IF BitLen(x.m) >= 72 THEN 0 ELSE 72 - BitLen(x.m)
        qr == BigDivMod(ShiftLeft(x.m, s), d)
    IN  IF x.m = <<>> THEN x ELSE Nearest(qr.q, x.e - s, qr.r # 0)

\* The float of a decimal literal n / d (d a power of ten), also what
\* round() returns for it and what int / int yields.
FloatOf(n, d) == FloatDiv(FloatOfInt(n), d)


\* a < b
BigLess(a, b) ==
    IF Len(a) # Len(b) THEN Len(a) < Len(b)
    ELSE \E i \in 1..Len(a) :
            /\ a[i] < b[i]
            /\ \A j \in (i + 1)..Len(a) : a[j] = b[j]

\* x < y
FloatLess(x, y) ==
    LET e == IF x.e <= y.e THEN x.e ELSE y.e
    IN  BigLess(ShiftLeft(x.m, x.e - e), ShiftLeft(y.m, y.e - e))

\* max(a, x): the first of the two unless the second is greater
FloatMax(a, x) == IF FloatLess(a, x) THEN [m |-> x.m, e |-> x.e] ELSE a

RECURSIVE FloatSumFrom(_, _, _, _, _)
\* the loop of sum(): the running sum takes the floats xs[lo..hi] / unit in
\* one by one
FloatSumFrom(acc, xs, lo, hi, unit) ==
    IF lo > hi THEN acc
    ELSE IF lo = hi THEN FloatAdd(acc, FloatOf(xs[lo], unit))
    ELSE LET first == FloatSumFrom(acc, xs, lo, (lo + hi) \div 2, unit)
         IN  IF first = acc
             THEN FloatSumFrom(acc, xs, (lo + hi) \div 2 + 1, hi, unit)
             ELSE FloatSumFrom(first, xs, (lo + hi) \div 2 + 1, hi, unit)

\* sum(xs) over the floats xs[i] / unit: added left to right, from 0
FloatSum(xs, unit) == FloatSumFrom(FloatOfInt(0), xs, 1, Len(xs), unit)

\* round(x, digits) for unit = 10^digits, as the integer round(...) * unit
round(x, unit) ==
    LET y == BigTimes(x.m, unit, 0)
    IN  IF x.e >= 0 THEN Small(ShiftLeft(y, x.e))
        ELSE Small(RoundShift(y, 0 - x.e, FALSE))

(***************************************************************************)
(* Rounding in the aggregations.  Their inputs are stored numbers, integer *)
(* counts of a unit (unit = 10 for round(x, 1), 100 for round(x, 2)).      *)
(***************************************************************************)
\* round(x, digits) * unit, for the float x the code computed where exact
\* arithmetic gives n / d units.  The error of x is a few times 2^-53 of its
\* value for each operation behind it, so over some thousands of values it
\* is far below the 1 / (2 * d) that separates n / d from the nearest half
\* way point: the float decides the digit only when n / d is half way.
RoundDiv(n, d, x, unit) ==
    LET q == n \div d
        r == n % d
    IN  IF 2 * r < d THEN q
        ELSE IF 2 * r > d THEN q + 1
        ELSE round(x, unit)

\* round(sum(xs) / len(xs), digits), xs counted in units; / 0 raises
Mean(xs, unit) ==
    IF Len(xs) = 0 THEN ZeroDivisionError
    ELSE RoundDiv(SumSeq(xs), Len(xs),
                  FloatDiv(FloatSum(xs, unit), Len(xs)), unit)

\* round((count / total) * 100, 1), in tenths of a percent; / 0 raises
Percentage(count, total) ==
    IF total = 0 THEN ZeroDivisionError
    ELSE RoundDiv(count * 1000, total,
                  FloatMul(FloatOf(count, total), FloatOfInt(100)), 10)

(***************************************************************************)
(* Datetimes.  A datetime is [year, month, day, hour, minute, second] in   *)
(* UTC; its ISO string is the tuple of the fields in the order isoformat   *)
(* prints them, and fromisoformat reads them back by position.             *)
(***************************************************************************)
isoformat(dt) == <<dt.year, dt.month, dt.day, dt.hour, dt.minute, dt.second>>

fromisoformat(s) ==
    [year |-> s[1], month |-> s[2], day |-> s[3],
     hour |-> s[4], minute |-> s[5], second |-> s[6]]

(***************************************************************************)
(* The numpy stream.  np.random.seed(42) opens every run of the generator, *)
(* so every run draws the same values.  Row i holds what the calls of      *)
(* np.random return for trip i, in the order of the fields of DrawOf; a    *)
(* float is written as the limbs of its 53-bit mantissa and its exponent   *)
(* of two, the normal draw with its sign in front.  The draws of the       *)
(* fields no aggregation reads (dropoff_location_id, passenger_count,      *)
(* payment_type) are left out.                                             *)
(***************************************************************************)
Seed42Rows ==
    << <<6, 19, 28, 14, 1, <<1568, 15761, 28223, 138>>, -47, <<22426, 23815, 3926, 217>>, -53, 215, <<11610, 29496, 29976, 155>>, -52, <<13542, 25335, 14987, 144>>, -52>>,
       <<23, 11, 29, 37, 1, <<18372, 17697, 12510, 191>>, -47, <<14898, 7599, 9352, 255>>, -61, 161, <<22267, 11778, 9109, 174>>, -58, <<21094, 18491, 12792, 141>>, -52>>,
       <<27, 15, 14, 46, 1, <<30968, 15404, 23707, 182>>, -51, <<5290, 5382, 17323, 163>>, -48, 131, <<17892, 31525, 19209, 143>>, -53, <<16930, 20687, 15247, 142>>, -52>>,
       <<17, 8, 25, 52, 1, <<26611, 17104, 7171, 189>>, -47, <<30872, 17077, 550, 168>>, -52, 92, <<18272, 22269, 46, 215>>, -56, <<22584, 20969, 2575, 164>>, -52>>,
       <<1, 5, 53, 41, 1, <<16446, 31510, 20450, 144>>, -48, <<8913, 30974, 24809, 147>>, -49, 44, <<30995, 25963, 2151, 193>>, -52, <<8189, 6471, 17120, 164>>, -52>>,
       <<13, 22, 59, 56, 1, <<1545, 2761, 32731, 207>>, -48, <<391, 22816, 30951, 129>>, -48, 213, <<10556, 20465, 1987, 132>>, -50, <<23772, 31913, 20188, 154>>, -52>>,
       <<27, 12, 40, 28, 1, <<7516, 32251, 30387, 134>>, -47, <<25804, 31169, 29689, 208>>, -50, 261, <<2333, 23605, 5163, 202>>, -51, <<11914, 6730, 7306, 164>>, -52>>,
       <<0, 15, 54, 22, 1, <<13687, 16103, 8680, 153>>, -47, <<14758, 23949, 27039, 176>>, -50, 99, <<32498, 24462, 28139, 194>>, -51, <<17782, 12812, 16798, 163>>, -52>>,
       <<13, 2, 0, 4, 1, <<25910, 12317, 23791, 189>>, -47, <<24024, 28805, 28203, 217>>, -51, 207, <<26829, 10350, 17502, 180>>, -54, <<29366, 18658, 1540, 152>>, -52>>,
       <<16, 19, 31, 3, 1, <<31106, 25946, 19062, 240>>, -48, <<20039, 23283, 16424, 190>>, -49, 231, <<1226, 22298, 891, 149>>, -51, <<28111, 16430, 32714, 145>>, -52>>,
       <<18, 21, 27, 1, 1, <<6440, 15889, 23292, 191>>, -51, <<3478, 4794, 22920, 142>>, -53, 28, <<19688, 26700, 19284, 158>>, -53, <<3139, 5096, 21283, 163>>, -52>>,
       <<27, 6, 32, 0, 1, <<15432, 31173, 18276, 153>>, -47, <<12044, 8860, 18334, 165>>, -52, 121, <<12280, 26506, 30842, 166>>, -52, <<780, 14747, 19739, 148>>, -52>>,
       <<29, 4, 32, 50, 1, <<25411, 7323, 10586, 182>>, -49, <<2882, 20719, 28477, 235>>, -53, 160, <<4644, 11854, 26274, 156>>, -51, <<2338, 24036, 4528, 151>>, -52>>,
       <<11, 6, 1, 2, 1, <<28320, 12149, 27361, 203>>, -49, <<2566, 26285, 2473, 229>>, -52, 113, <<29087, 23429, 10444, 238>>, -53, <<4872, 13210, 26258, 165>>, -52>>,
       <<0, 0, 18, 1, -1, <<5168, 16147, 23009, 199>>, -49, <<7485, 25563, 25991, 128>>, -50, 247, <<24175, 29971, 6915, 177>>, -52, <<4545, 28821, 32744, 146>>, -52>>,
       <<1, 5, 21, 10, 1, <<17618, 12371, 26860, 188>>, -47, <<27924, 30055, 20104, 135>>, -49, 144, <<24939, 30548, 30351, 250>>, -54, <<13074, 14169, 26538, 153>>, -52>>,
       <<27, 3, 18, 25, 1, <<17984, 17248, 23796, 222>>, -52, <<15560, 19261, 25555, 165>>, -50, 128, <<7320, 13718, 16269, 132>>, -49, <<32157, 10787, 10503, 144>>, -52>>,
       <<22, 9, 34, 6, 1, <<8218, 19235, 7456, 208>>, -48, <<15722, 19309, 19727, 172>>, -50, 112, <<5139, 1660, 3596, 232>>, -53, <<21871, 18860, 9964, 166>>, -52>>,
       <<26, 22, 8, 40, 1, <<29111, 2902, 31582, 177>>, -47, <<23556, 24734, 30401, 181>>, -49, 152, <<10725, 31683, 9894, 145>>, -50, <<28513, 19015, 7733, 157>>, -52>>,
       <<5, 7, 19, 34, 1, <<29602, 4654, 28997, 191>>, -49, <<13612, 14894, 424, 149>>, -51, 99, <<22024, 30921, 13720, 249>>, -59, <<17646, 31806, 30037, 144>>, -52>>,
       <<15, 8, 35, 32, 1, <<31468, 23478, 13669, 199>>, -48, <<16766, 12035, 5924, 252>>, -53, 135, <<5012, 4677, 25826, 205>>, -51, <<16785, 6869, 11426, 155>>, -52>>,
       <<22, 21, 45, 29, 1, <<26234, 14025, 39, 154>>, -48, <<966, 6057, 16134, 144>>, -48, 51, <<29272, 13275, 15997, 191>>, -51, <<16255, 14612, 4822, 161>>, -52>>,
       <<0, 4, 59, 47, 1, <<24470, 23253, 32302, 142>>, -49, <<23323, 6736, 22500, 225>>, -49, 46, <<22308, 20605, 16985, 177>>, -52, <<6197, 11459, 6412, 141>>, -52>>,
       <<20, 2, 59, 32, 1, <<12262, 11998, 31075, 128>>, -47, <<21824, 4201, 17695, 200>>, -54, 253, <<29603, 16030, 11801, 146>>, -52, <<10692, 7244, 4555, 145>>, -52>>,
       <<25, 2, 39, 45, 1, <<5364, 32480, 23410, 227>>, -48, <<8814, 32109, 13853, 184>>, -48, 127, <<29740, 15811, 12726, 134>>, -52, <<29800, 19402, 1877, 149>>, -52>>,
       <<21, 15, 38, 28, 1, <<973, 13969, 28021, 205>>, -49, <<18912, 25583, 2921, 225>>, -52, 26, <<13173, 11855, 24184, 130>>, -54, <<29837, 25497, 30563, 140>>, -52>>,
       <<7, 13, 15, 13, 1, <<1729, 29065, 5494, 162>>, -48, <<14722, 4645, 22930, 150>>, -51, 215, <<9786, 2869, 20220, 240>>, -52, <<15762, 23343, 22665, 154>>, -52>>,
       <<21, 16, 51, 41, 1, <<11074, 6718, 17634, 145>>, -47, <<5967, 27989, 11406, 138>>, -49, 54, <<3546, 18019, 26918, 141>>, -51, <<26608, 26474, 16771, 160>>, -52>>,
       <<3, 5, 44, 31, 1, <<17371, 26709, 11211, 243>>, -47, <<8020, 3160, 10682, 162>>, -50, 144, <<16940, 19045, 24199, 240>>, -51, <<14881, 10812, 27896, 141>>, -52>>,
       <<25, 22, 25, 36, 1, <<24480, 30210, 19818, 210>>, -47, <<23157, 18672, 13105, 130>>, -52, 127, <<16928, 26037, 5092, 146>>, -53, <<32563, 9920, 26371, 144>>, -52>>,
       <<15, 7, 44, 52, 1, <<11066, 5437, 17282, 232>>, -48, <<30798, 25006, 8385, 171>>, -50, 69, <<12782, 9200, 6440, 150>>, -55, <<16489, 27106, 9520, 155>>, -52>>,
       <<28, 13, 27, 4, 1, <<29554, 12187, 22557, 234>>, -47, <<27428, 23815, 5128, 253>>, -54, 94, <<9630, 1565, 20202, 186>>, -49, <<10185, 2964, 9452, 145>>, -52>>,
       <<20, 6, 35, 32, 1, <<24002, 18007, 25779, 226>>, -47, <<11347, 4119, 5602, 252>>, -55, 246, <<29146, 11341, 13928, 142>>, -55, <<17510, 7785, 12782, 150>>, -52>>,
       <<0, 23, 4, 44, 1, <<32118, 13580, 6265, 140>>, -48, <<23486, 32401, 21353, 227>>, -53, 247, <<4944, 27208, 2738, 165>>, -56, <<4439, 18767, 26078, 155>>, -52>>,
       <<17, 2, 59, 32, 1, <<12376, 8429, 32178, 227>>, -47, <<6908, 859, 1644, 227>>, -49, 65, <<29063, 13546, 10725, 226>>, -50, <<3514, 29752, 26615, 145>>, -52>>,
       <<1, 18, 49, 34, -1, <<12124, 8096, 70, 137>>, -50, <<3692, 22009, 9784, 131>>, -51, 90, <<17592, 12793, 30238, 186>>, -52, <<11996, 12702, 8169, 158>>, -52>>,
       <<6, 3, 57, 52, 1, <<13489, 18702, 25104, 131>>, -47, <<1574, 23093, 21982, 204>>, -55, 217, <<30166, 20150, 14748, 152>>, -51, <<17233, 18790, 20999, 151>>, -52>>,
       <<2, 15, 35, 17, 1, <<19867, 8669, 30572, 177>>, -48, <<2341, 9651, 4278, 184>>, -52, 96, <<9389, 7530, 24746, 193>>, -50, <<96, 11235, 6022, 155>>, -52>>,
       <<22, 2, 40, 29, 1, <<29560, 560, 14994, 201>>, -48, <<21457, 7195, 3493, 140>>, -49, 187, <<14000, 10959, 10078, 189>>, -52, <<23243, 22314, 2537, 141>>, -52>>,
       <<6, 13, 30, 51, 1, <<190, 28961, 28050, 155>>, -47, <<16976, 18262, 10471, 136>>, -50, 144, <<15341, 2849, 8413, 133>>, -52, <<32715, 6666, 7006, 149>>, -52>>,
       <<22, 15, 56, 38, 1, <<7498, 23910, 17379, 198>>, -48, <<32005, 31774, 24941, 151>>, -54, 223, <<17573, 24913, 22977, 223>>, -52, <<13224, 21001, 17210, 163>>, -52>>,
       <<11, 8, 9, 57, 1, <<17010, 16424, 21592, 184>>, -49, <<603, 30482, 2126, 154>>, -50, 253, <<14300, 6274, 31001, 134>>, -54, <<32232, 30355, 24405, 158>>, -52>>,
       <<25, 1, 4, 28, 1, <<20688, 13300, 27493, 209>>, -51, <<20388, 12621, 1508, 134>>, -49, 217, <<1527, 4081, 18009, 165>>, -52, <<3308, 27665, 30455, 158>>, -52>>,
       <<6, 9, 25, 18, 1, <<16824, 31443, 27353, 248>>, -51, <<5548, 9115, 29054, 150>>, -53, 173, <<7125, 7448, 16413, 199>>, -52, <<17397, 23563, 14080, 155>>, -52>>,
       <<30, 8, 38, 0, 1, <<18552, 16511, 32334, 134>>, -49, <<16180, 31183, 19106, 163>>, -51, 117, <<19574, 23032, 17165, 155>>, -50, <<27236, 30713, 27336, 165>>, -52>>,
       <<15, 21, 20, 10, 1, <<29989, 5430, 22751, 145>>, -47, <<23593, 27212, 5860, 201>>, -49, 164, <<6836, 26302, 8130, 228>>, -51, <<23935, 15876, 23957, 142>>, -52>>,
       <<14, 0, 52, 53, 1, <<3871, 5159, 11116, 152>>, -47, <<2608, 13155, 4544, 238>>, -55, 12, <<13402, 12273, 3545, 183>>, -55, <<23544, 8899, 29483, 150>>, -52>>,
       <<25, 3, 25, 7, 1, <<28769, 3318, 34, 222>>, -48, <<11728, 4428, 16552, 139>>, -51, 178, <<14760, 28537, 19439, 248>>, -55, <<1236, 258, 24396, 165>>, -52>>,
       <<16, 8, 32, 52, 1, <<18634, 29920, 9202, 134>>, -47, <<7486, 18772, 5448, 227>>, -53, 46, <<28258, 14622, 32226, 165>>, -50, <<10738, 10325, 3764, 165>>, -52>>,
       <<1, 9, 55, 29, 1, <<6093, 15468, 7583, 158>>, -47, <<19087, 24, 27243, 160>>, -49, 5, <<28426, 23177, 14048, 203>>, -52, <<44, 15526, 23154, 160>>, -52>>,
       <<10, 20, 25, 24, 1, <<17471, 68, 8363, 186>>, -48, <<13648, 17758, 15308, 171>>, -51, 6, <<26444, 24129, 4544, 196>>, -48, <<536, 31931, 10285, 166>>, -52>>,
       <<4, 9, 9, 18, 1, <<23602, 29315, 8813, 174>>, -47, <<23471, 22104, 28100, 181>>, -52, 78, <<17732, 3461, 27877, 147>>, -49, <<7872, 17655, 10422, 156>>, -52>>,
       <<1, 7, 38, 25, -1, <<22656, 28019, 12461, 217>>, -48, <<26443, 468, 13257, 142>>, -49, 54, <<5991, 5544, 1245, 158>>, -51, <<18491, 24328, 7940, 163>>, -52>>,
       <<14, 22, 14, 36, 1, <<1986, 23538, 26490, 167>>, -48, <<7602, 18888, 30927, 154>>, -50, 66, <<29579, 3817, 30205, 183>>, -53, <<26726, 2788, 9539, 144>>, -52>>,
       <<1, 17, 29, 14, 1, <<16984, 27673, 5367, 153>>, -47, <<1187, 8855, 32533, 136>>, -51, 166, <<4869, 29809, 27307, 186>>, -51, <<22186, 16731, 28721, 162>>, -52>>,
       <<23, 16, 9, 16, 1, <<17990, 2464, 18044, 183>>, -48, <<6269, 18207, 6248, 191>>, -52, 69, <<22683, 25333, 6017, 186>>, -51, <<30420, 29148, 22733, 149>>, -52>>,
       <<10, 18, 46, 56, 1, <<17838, 19862, 16990, 240>>, -47, <<6456, 20723, 20463, 163>>, -51, 8, <<16940, 15, 22731, 203>>, -52, <<28421, 5421, 5981, 163>>, -52>>,
       <<28, 18, 18, 20, 1, <<8618, 8500, 18181, 135>>, -49, <<15252, 5047, 28200, 236>>, -53, 92, <<4580, 29881, 20167, 149>>, -53, <<5797, 15677, 2319, 143>>, -52>>,
       <<25, 13, 33, 48, 1, <<18913, 25864, 28950, 217>>, -47, <<2110, 31695, 11184, 205>>, -55, 249, <<21477, 23095, 26541, 189>>, -51, <<25800, 27752, 29262, 142>>, -52>>,
       <<28, 16, 25, 35, 1, <<25596, 30425, 7589, 204>>, -48, <<9304, 4152, 9005, 131>>, -49, 113, <<298, 14801, 25782, 205>>, -49, <<22043, 8472, 17587, 154>>, -52>>,
       <<27, 22, 13, 23, 1, <<44, 27170, 21288, 169>>, -48, <<27380, 3958, 20450, 204>>, -53, 7, <<3186, 20990, 18140, 216>>, -50, <<3978, 17971, 29456, 153>>, -52>>,
       <<25, 5, 34, 50, 1, <<24194, 15614, 9572, 215>>, -48, <<8222, 5814, 23704, 177>>, -52, 119, <<29072, 18443, 4706, 249>>, -57, <<25474, 32325, 1481, 149>>, -52>>,
       <<11, 16, 12, 19, -1, <<9968, 31672, 26445, 244>>, -50, <<25694, 18295, 14231, 167>>, -50, 146, <<22370, 3300, 16041, 168>>, -51, <<25725, 29201, 21713, 159>>, -52>>,
       <<11, 18, 41, 40, 1, <<23934, 24304, 2487, 153>>, -48, <<1627, 423, 23902, 131>>, -51, 180, <<13872, 15692, 5869, 215>>, -53, <<20917, 28259, 18190, 153>>, -52>>,
       <<20, 21, 20, 5, 1, <<23069, 13603, 8235, 175>>, -48, <<18412, 14689, 6776, 152>>, -49, 95, <<28776, 13607, 32510, 217>>, -50, <<18840, 11274, 27983, 142>>, -52>>,
       <<3, 23, 30, 5, -1, <<11560, 976, 23203, 146>>, -49, <<21788, 19020, 10569, 162>>, -51, 220, <<24187, 3950, 19642, 192>>, -50, <<22733, 4295, 23496, 161>>, -52>>,
       <<18, 1, 14, 10, -1, <<20480, 4904, 8535, 168>>, -57, <<23757, 26820, 26076, 234>>, -50, 118, <<26364, 31756, 953, 136>>, -51, <<3645, 13830, 186, 147>>, -52>>,
       <<5, 4, 10, 35, 1, <<9874, 19891, 19713, 132>>, -47, <<11074, 9701, 14047, 247>>, -52, 259, <<15272, 13448, 31223, 176>>, -52, <<23860, 32590, 14065, 152>>, -52>>,
       <<1, 12, 39, 1, 1, <<32122, 28620, 12867, 243>>, -47, <<28046, 17175, 184, 253>>, -50, 95, <<13396, 28858, 15016, 170>>, -50, <<2115, 21178, 16537, 165>>, -52>>,
       <<8, 1, 11, 34, 1, <<23703, 4303, 30819, 254>>, -49, <<30177, 26093, 5059, 176>>, -54, 60, <<11944, 17608, 30738, 172>>, -53, <<19241, 31298, 32426, 144>>, -52>>,
       <<26, 13, 25, 3, 1, <<21366, 24362, 7036, 149>>, -47, <<2311, 13734, 26460, 183>>, -50, 104, <<30447, 16026, 23902, 220>>, -50, <<23665, 23613, 25460, 156>>, -52>>,
       <<0, 16, 32, 46, -1, <<9856, 2907, 30942, 155>>, -53, <<20612, 13459, 32314, 154>>, -51, 104, <<29835, 24675, 30456, 187>>, -51, <<25460, 19134, 25971, 143>>, -52>>,
       <<7, 9, 51, 14, 1, <<3758, 31497, 15423, 198>>, -48, <<21912, 23704, 14199, 216>>, -50, 157, <<26500, 16592, 377, 134>>, -50, <<29182, 19506, 29448, 158>>, -52>>,
       <<3, 21, 1, 9, 1, <<31526, 11336, 8641, 163>>, -47, <<16453, 7093, 32055, 217>>, -51, 118, <<19382, 25114, 27412, 182>>, -52, <<3594, 31770, 16357, 152>>, -52>>,
       <<7, 4, 28, 46, 1, <<23113, 4010, 28019, 184>>, -47, <<19232, 1371, 14953, 251>>, -57, 115, <<14078, 24359, 1542, 160>>, -51, <<5520, 31181, 4396, 159>>, -52>>,
       <<29, 9, 39, 37, 1, <<17182, 4554, 5549, 143>>, -48, <<22169, 8549, 2472, 165>>, -52, 23, <<10868, 14111, 14069, 169>>, -51, <<1401, 19067, 24600, 153>>, -52>>,
       <<27, 10, 11, 43, 1, <<71, 8098, 30468, 206>>, -47, <<12508, 15513, 19580, 204>>, -49, 127, <<27842, 349, 20010, 141>>, -50, <<21471, 18146, 12633, 150>>, -52>>,
       <<13, 7, 40, 21, 1, <<30755, 4031, 13647, 135>>, -47, <<6988, 16164, 8124, 193>>, -49, 257, <<10732, 31366, 2632, 201>>, -49, <<11748, 3929, 9037, 162>>, -52>>,
       <<30, 21, 54, 50, -1, <<27712, 31990, 4205, 198>>, -54, <<18486, 25325, 5716, 144>>, -54, 137, <<12044, 408, 29018, 155>>, -50, <<1382, 738, 30100, 140>>, -52>>,
       <<24, 10, 37, 1, 1, <<1485, 9571, 25330, 191>>, -47, <<14346, 22939, 18853, 200>>, -51, 17, <<30370, 18411, 11984, 195>>, -53, <<17403, 5716, 12532, 152>>, -52>>,
       <<6, 19, 5, 52, 1, <<3215, 15653, 9432, 172>>, -48, <<31698, 30470, 798, 139>>, -50, 150, <<20796, 13178, 31701, 161>>, -57, <<3525, 29187, 25773, 157>>, -52>>,
       <<16, 19, 53, 21, 1, <<3610, 13426, 25309, 141>>, -47, <<16170, 18606, 12661, 228>>, -54, 189, <<452, 26349, 24299, 136>>, -52, <<30713, 11072, 24064, 148>>, -52>>,
       <<23, 18, 31, 29, 1, <<24225, 24935, 6409, 254>>, -47, <<11334, 5938, 32616, 173>>, -54, 78, <<25878, 7759, 190, 144>>, -51, <<15343, 16269, 15796, 154>>, -52>>,
       <<18, 3, 0, 7, 1, <<7192, 9686, 9664, 134>>, -49, <<15132, 30381, 10352, 158>>, -49, 131, <<5936, 32313, 25820, 201>>, -52, <<2791, 610, 14742, 141>>, -52>>,
       <<28, 7, 0, 56, 1, <<29326, 22149, 30381, 230>>, -49, <<2003, 21693, 10038, 178>>, -50, 54, <<18647, 10461, 15262, 154>>, -50, <<11532, 16975, 12148, 145>>, -52>>,
       <<1, 2, 31, 23, 1, <<18010, 19659, 6696, 225>>, -49, <<2601, 12245, 31954, 204>>, -50, 120, <<21560, 27525, 19575, 233>>, -54, <<27416, 32008, 6672, 151>>, -52>>,
       <<9, 6, 32, 22, 1, <<13659, 14004, 20915, 239>>, -48, <<8176, 7545, 24714, 194>>, -50, 197, <<24240, 19795, 21317, 230>>, -53, <<5064, 15639, 17043, 150>>, -52>>,
       <<4, 4, 37, 29, 1, <<24748, 2590, 6573, 152>>, -47, <<24272, 14176, 6350, 144>>, -51, 53, <<29628, 24551, 24132, 194>>, -50, <<19767, 10646, 9117, 153>>, -52>>,
       <<16, 17, 50, 16, 1, <<8858, 26331, 30677, 236>>, -48, <<21352, 21877, 19384, 160>>, -50, 201, <<8990, 24704, 28563, 198>>, -51, <<6736, 9827, 19517, 151>>, -52>>,
       <<1, 22, 36, 10, -1, <<18656, 29484, 1527, 167>>, -53, <<15076, 10303, 11160, 138>>, -49, 128, <<23952, 28232, 31922, 164>>, -51, <<5162, 19060, 26732, 147>>, -52>>,
       <<25, 11, 22, 52, 1, <<30303, 12971, 7602, 197>>, -47, <<27562, 10376, 32685, 174>>, -50, 173, <<3435, 29034, 16044, 140>>, -51, <<22049, 10107, 76, 142>>, -52>>,
       <<18, 20, 35, 50, 1, <<27872, 3030, 7526, 194>>, -47, <<29068, 19157, 5243, 180>>, -52, 149, <<10455, 26703, 25775, 168>>, -52, <<18676, 26976, 6801, 159>>, -52>>,
       <<1, 22, 46, 23, 1, <<2081, 21766, 14368, 211>>, -48, <<12571, 27625, 28743, 154>>, -52, 36, <<24257, 3947, 19727, 233>>, -53, <<4761, 31097, 1113, 156>>, -52>>,
       <<12, 10, 33, 8, 1, <<24652, 10810, 15873, 221>>, -48, <<15678, 29419, 25689, 235>>, -50, 73, <<28148, 27678, 10865, 166>>, -52, <<9065, 23858, 12042, 151>>, -52>>,
       <<24, 6, 34, 2, 1, <<14104, 23249, 2153, 163>>, -48, <<3502, 29086, 25681, 131>>, -49, 17, <<14492, 18712, 25912, 226>>, -52, <<24813, 5137, 17675, 145>>, -52>>,
       <<7, 20, 16, 22, 1, <<18744, 31525, 28323, 241>>, -49, <<3999, 29839, 1199, 206>>, -50, 198, <<27208, 3077, 19659, 220>>, -53, <<14319, 26756, 10789, 153>>, -52>>,
       <<12, 14, 31, 9, 1, <<1216, 2250, 17097, 199>>, -50, <<25648, 16925, 4398, 240>>, -52, 117, <<11834, 9392, 16766, 135>>, -52, <<13427, 4324, 15222, 164>>, -52>>,
       <<17, 19, 38, 34, 1, <<9188, 2920, 5876, 128>>, -46, <<20889, 30600, 32044, 245>>, -52, 103, <<27093, 31194, 4772, 174>>, -51, <<13982, 26124, 22551, 146>>, -52>>,
       <<4, 10, 39, 25, 1, <<6852, 2486, 22175, 168>>, -48, <<16588, 29953, 13324, 242>>, -52, 4, <<13211, 19861, 32418, 140>>, -51, <<10774, 16305, 23806, 151>>, -52>>,
       <<2, 9, 33, 29, 1, <<13356, 17033, 6493, 216>>, -48, <<28922, 27064, 22345, 155>>, -62, 141, <<17823, 27528, 30269, 153>>, -50, <<11227, 6760, 11374, 166>>, -52>>,
       <<28, 20, 43, 56, 1, <<20768, 13079, 7519, 235>>, -53, <<18415, 12874, 18091, 162>>, -51, 65, <<13840, 13299, 26686, 179>>, -54, <<858, 880, 28781, 149>>, -52>>,
       <<29, 4, 24, 47, 1, <<16845, 11721, 2333, 134>>, -47, <<25476, 2884, 22432, 184>>, -56, 73, <<22184, 16339, 12674, 150>>, -49, <<21085, 11834, 7488, 161>>, -52>>,
       <<6, 23, 45, 23, 1, <<14703, 23427, 19115, 238>>, -47, <<31683, 6654, 30666, 233>>, -53, 52, <<25224, 2559, 13019, 202>>, -53, <<19226, 4267, 30603, 164>>, -52>>,
       <<12, 13, 9, 42, 1, <<3404, 7368, 21782, 240>>, -49, <<1621, 7901, 19955, 248>>, -53, 218, <<18464, 9183, 11052, 151>>, -49, <<23123, 31815, 31157, 161>>, -52>>,
       <<22, 16, 8, 34, 1, <<20650, 30434, 29057, 137>>, -47, <<8810, 4620, 29790, 192>>, -52, 178, <<25042, 4049, 20294, 134>>, -48, <<9261, 13274, 25374, 163>>, -52>>,
       <<28, 14, 24, 8, 1, <<17052, 712, 7554, 247>>, -47, <<26825, 19849, 7987, 180>>, -49, 98, <<27955, 29410, 17919, 190>>, -52, <<10639, 10471, 25813, 147>>, -52>>,
       <<1, 11, 41, 8, 1, <<31408, 29006, 13240, 130>>, -47, <<4204, 963, 20071, 212>>, -50, 226, <<1133, 27851, 2091, 179>>, -52, <<9250, 21851, 14735, 147>>, -52>>,
       <<5, 4, 59, 47, 1, <<7499, 18778, 29964, 175>>, -48, <<24027, 16992, 31038, 183>>, -50, 81, <<28961, 21818, 7520, 131>>, -51, <<9601, 20995, 3375, 153>>, -52>>,
       <<23, 7, 33, 39, 1, <<31424, 20220, 14308, 209>>, -54, <<17534, 25995, 23360, 168>>, -49, 147, <<12572, 7666, 4172, 216>>, -53, <<26931, 10212, 27129, 144>>, -52>>,
       <<12, 20, 41, 35, 1, <<32756, 30040, 16574, 255>>, -48, <<30999, 31868, 7530, 154>>, -50, 188, <<16182, 8728, 28312, 204>>, -50, <<5032, 3660, 13424, 165>>, -52>>,
       <<9, 9, 31, 42, 1, <<1044, 24965, 18197, 227>>, -48, <<20830, 5258, 20379, 183>>, -60, 258, <<30846, 28846, 21850, 135>>, -50, <<16641, 29492, 13841, 147>>, -52>>,
       <<26, 16, 40, 16, 1, <<13247, 7743, 23050, 181>>, -48, <<26690, 5439, 19518, 157>>, -53, 188, <<20853, 25599, 5575, 211>>, -54, <<28132, 22683, 1755, 148>>, -52>>,
       <<1, 14, 29, 36, 1, <<3681, 19602, 14023, 146>>, -48, <<2952, 13506, 5031, 229>>, -52, 17, <<512, 21896, 6489, 214>>, -55, <<32373, 12384, 23054, 155>>, -52>>,
       <<26, 17, 49, 13, 1, <<12226, 29703, 9528, 223>>, -48, <<22315, 12169, 6808, 145>>, -48, 204, <<21512, 35, 7845, 200>>, -51, <<9578, 25755, 541, 156>>, -52>>,
       <<0, 5, 46, 14, 1, <<3418, 18889, 28768, 131>>, -48, <<4764, 24455, 24800, 168>>, -60, 226, <<397, 5442, 9491, 213>>, -52, <<4659, 9186, 11649, 152>>, -52>>,
       <<28, 10, 51, 31, 1, <<17768, 5149, 28604, 143>>, -47, <<1072, 23893, 2982, 220>>, -54, 84, <<10900, 1319, 8701, 216>>, -54, <<11038, 4700, 727, 163>>, -52>>,
       <<28, 20, 46, 15, 1, <<23872, 13951, 24818, 158>>, -48, <<9585, 10807, 9629, 239>>, -52, 58, <<14802, 27206, 16345, 131>>, -50, <<25437, 27244, 30447, 145>>, -52>>,
       <<17, 14, 43, 15, 1, <<208, 25153, 31213, 192>>, -47, <<11279, 30069, 24446, 250>>, -51, 60, <<5074, 18111, 27132, 146>>, -54, <<22440, 3434, 24040, 144>>, -52>>,
       <<6, 2, 28, 43, 1, <<31630, 20021, 31198, 174>>, -47, <<1189, 3925, 6379, 210>>, -51, 206, <<31800, 3028, 13922, 218>>, -53, <<8764, 29532, 3124, 155>>, -52>>,
       <<21, 21, 52, 52, 1, <<26435, 22646, 15868, 129>>, -47, <<32480, 5117, 24862, 142>>, -50, 72, <<8512, 13675, 7583, 233>>, -52, <<31123, 13611, 3194, 141>>, -52>>,
       <<13, 14, 30, 37, 1, <<4328, 6386, 13477, 161>>, -47, <<1298, 23709, 11763, 157>>, -49, 102, <<5355, 20150, 24997, 132>>, -50, <<31812, 23191, 17550, 144>>, -52>>,
       <<14, 15, 53, 21, 1, <<30350, 225, 17336, 137>>, -49, <<4862, 23393, 4769, 151>>, -52, 161, <<785, 23016, 17787, 143>>, -50, <<8496, 21161, 29349, 164>>, -52>>,
       <<8, 12, 29, 32, 1, <<14654, 9476, 15303, 143>>, -48, <<24341, 24163, 26165, 248>>, -52, 166, <<1506, 3078, 17565, 224>>, -51, <<1018, 6517, 9667, 161>>, -52>>,
       <<16, 7, 10, 2, 1, <<29799, 10977, 16628, 164>>, -47, <<29185, 1729, 7850, 181>>, -49, 9, <<14045, 28846, 2233, 184>>, -51, <<8438, 7893, 16101, 156>>, -52>>,
       <<7, 17, 27, 19, 1, <<28447, 19743, 31888, 162>>, -47, <<15744, 23754, 25444, 213>>, -54, 84, <<24828, 24355, 9468, 152>>, -51, <<30439, 15110, 23685, 161>>, -52>>,
       <<8, 9, 13, 10, 1, <<12832, 16728, 25289, 135>>, -48, <<9582, 17946, 14961, 206>>, -50, 12, <<3740, 3015, 23832, 201>>, -51, <<4630, 23116, 2278, 153>>, -52>>,
       <<13, 3, 44, 7, 1, <<3215, 1728, 22060, 177>>, -48, <<541, 25419, 18834, 228>>, -55, 82, <<13579, 24438, 6174, 199>>, -53, <<16372, 28373, 10031, 166>>, -52>>,
       <<9, 18, 34, 28, 1, <<29192, 24802, 18543, 162>>, -47, <<12980, 6801, 14124, 173>>, -51, 207, <<19368, 30785, 12758, 249>>, -51, <<10192, 25773, 26649, 159>>, -52>>,
       <<11, 19, 59, 23, 1, <<7929, 4190, 4509, 157>>, -47, <<28112, 1263, 29484, 141>>, -50, 250, <<28622, 30687, 9745, 193>>, -52, <<28740, 11442, 10434, 156>>, -52>>,
       <<6, 9, 50, 50, 1, <<26444, 1871, 12661, 138>>, -46, <<26536, 16166, 22218, 213>>, -52, 125, <<17812, 5982, 9205, 187>>, -51, <<407, 16760, 31717, 156>>, -52>>,
       <<7, 3, 47, 29, 1, <<13440, 2826, 31568, 133>>, -48, <<1413, 30421, 5474, 142>>, -48, 41, <<10481, 12093, 18297, 172>>, -51, <<18711, 27721, 20742, 155>>, -52>>,
       <<16, 1, 34, 36, 1, <<19714, 29984, 26554, 238>>, -49, <<26599, 16957, 25650, 185>>, -57, 164, <<18780, 24956, 16694, 234>>, -55, <<31659, 21366, 4777, 145>>, -52>>,
       <<29, 8, 0, 4, 1, <<21380, 29877, 30652, 138>>, -47, <<11598, 23251, 9555, 196>>, -50, 64, <<26778, 5087, 19815, 178>>, -51, <<4823, 30651, 30550, 149>>, -52>>,
       <<23, 11, 55, 27, 1, <<2784, 23955, 27582, 131>>, -50, <<13454, 5844, 24094, 159>>, -49, 108, <<23759, 12211, 10239, 182>>, -54, <<15556, 25392, 23120, 147>>, -52>>,
       <<19, 0, 54, 34, 1, <<22853, 98, 31405, 143>>, -47, <<347, 23029, 7090, 243>>, -52, 179, <<26500, 17322, 24915, 223>>, -51, <<15134, 1840, 31880, 150>>, -52>>,
       <<29, 1, 24, 49, 1, <<21635, 16133, 10289, 190>>, -48, <<30572, 16735, 20375, 144>>, -48, 39, <<26869, 17040, 9110, 225>>, -53, <<3794, 9316, 5121, 154>>, -52>>,
       <<22, 12, 51, 15, 1, <<6879, 6352, 21717, 207>>, -48, <<17784, 8238, 26445, 226>>, -53, 129, <<4216, 23258, 13239, 130>>, -53, <<12961, 22091, 26370, 146>>, -52>>,
       <<0, 22, 54, 25, 1, <<20386, 29964, 15426, 214>>, -48, <<30956, 19607, 1353, 150>>, -51, 114, <<6648, 2325, 19808, 170>>, -50, <<15102, 28174, 30604, 162>>, -52>>,
       <<24, 13, 3, 32, 1, <<31302, 29100, 2677, 137>>, -47, <<4230, 1608, 9261, 140>>, -49, 69, <<28208, 11795, 18970, 164>>, -52, <<9173, 12902, 28762, 144>>, -52>>,
       <<0, 8, 24, 47, 1, <<27972, 22824, 30290, 216>>, -48, <<15368, 22219, 12073, 223>>, -50, 245, <<29035, 17607, 26412, 130>>, -52, <<30146, 6323, 19438, 143>>, -52>>,
       <<3, 5, 18, 5, 1, <<1860, 24555, 12910, 147>>, -47, <<20049, 27537, 24429, 150>>, -51, 89, <<9378, 31977, 22701, 150>>, -52, <<9619, 20195, 5944, 150>>, -52>>,
       <<27, 0, 48, 31, 1, <<10390, 7874, 948, 153>>, -48, <<9738, 4249, 16624, 149>>, -51, 102, <<18644, 901, 17558, 197>>, -51, <<4050, 19346, 7838, 160>>, -52>>,
       <<7, 15, 1, 5, 1, <<16960, 5593, 7021, 138>>, -53, <<22335, 11140, 7515, 207>>, -51, 43, <<13222, 15929, 10871, 167>>, -53, <<21204, 19639, 32558, 140>>, -52>>,
       <<24, 3, 10, 50, 1, <<17217, 7063, 16925, 220>>, -48, <<19601, 16607, 4238, 159>>, -54, 141, <<25874, 9472, 30117, 212>>, -51, <<1956, 10814, 19592, 164>>, -52>>,
       <<9, 3, 29, 17, 1, <<24212, 9556, 30933, 237>>, -48, <<5383, 18058, 19894, 138>>, -49, 263, <<7884, 2947, 24859, 153>>, -53, <<26314, 12325, 8001, 154>>, -52>>,
       <<9, 9, 55, 35, 1, <<18108, 10113, 1086, 192>>, -48, <<19022, 13473, 26882, 176>>, -51, 263, <<3410, 886, 11296, 136>>, -55, <<13105, 8829, 284, 157>>, -52>>,
       <<21, 20, 21, 27, 1, <<12079, 23912, 17104, 231>>, -49, <<27405, 29655, 1976, 151>>, -50, 121, <<22376, 16366, 28739, 226>>, -50, <<32136, 27105, 16730, 160>>, -52>>,
       <<3, 17, 23, 18, 1, <<26775, 1837, 29615, 240>>, -49, <<14894, 21520, 13052, 152>>, -49, 167, <<30166, 10766, 6324, 159>>, -50, <<5452, 5862, 13972, 160>>, -52>>,
       <<4, 14, 48, 34, 1, <<29922, 19295, 12088, 190>>, -48, <<23279, 5353, 9052, 245>>, -51, 150, <<8751, 14273, 31906, 200>>, -53, <<18469, 29193, 2567, 146>>, -52>>,
       <<12, 1, 34, 6, 1, <<9194, 2025, 19538, 165>>, -47, <<19569, 7525, 2189, 190>>, -50, 42, <<8502, 26149, 25204, 242>>, -51, <<1316, 30928, 17247, 158>>, -52>>,
       <<18, 3, 25, 37, 1, <<7296, 16567, 16507, 167>>, -53, <<13078, 25523, 27582, 211>>, -54, 232, <<16940, 29359, 20557, 215>>, -50, <<5351, 12370, 23324, 145>>, -52>>,
       <<8, 6, 3, 12, 1, <<4459, 8091, 26238, 133>>, -47, <<16233, 17229, 7993, 234>>, -51, 130, <<12646, 13136, 23306, 222>>, -55, <<32586, 14036, 6170, 157>>, -52>>,
       <<2, 21, 43, 57, 1, <<25916, 14834, 21631, 173>>, -47, <<22486, 2669, 19001, 205>>, -48, 258, <<23774, 6396, 21740, 156>>, -51, <<13532, 15451, 16536, 159>>, -52>>,
       <<11, 3, 4, 12, 1, <<17620, 29090, 12199, 219>>, -50, <<12746, 9306, 7856, 161>>, -50, 208, <<9857, 10626, 5636, 156>>, -54, <<29687, 30273, 10796, 152>>, -52>>,
       <<11, 7, 19, 2, 1, <<22142, 28787, 27686, 137>>, -49, <<5412, 8908, 20519, 195>>, -48, 248, <<4010, 8396, 25300, 213>>, -51, <<10170, 537, 5865, 143>>, -52>>,
       <<0, 20, 15, 11, 1, <<15825, 11483, 1015, 162>>, -48, <<5399, 2349, 24322, 243>>, -50, 226, <<25389, 19912, 8323, 192>>, -54, <<2800, 17257, 20327, 146>>, -52>>,
       <<1, 8, 0, 10, 1, <<15630, 7371, 29909, 133>>, -48, <<20372, 2953, 10505, 228>>, -49, 262, <<14568, 24661, 23482, 232>>, -49, <<22464, 13801, 19545, 162>>, -52>>,
       <<9, 5, 17, 44, 1, <<27843, 8500, 25941, 148>>, -47, <<27749, 14527, 9611, 153>>, -51, 216, <<25452, 2560, 12682, 245>>, -51, <<13050, 571, 13655, 144>>, -52>>,
       <<14, 20, 34, 1, 1, <<4005, 10374, 29713, 147>>, -48, <<13498, 9577, 10728, 252>>, -49, 256, <<6030, 9631, 11852, 164>>, -51, <<4606, 1610, 2342, 153>>, -52>>,
       <<0, 13, 15, 53, 1, <<1645, 8646, 24460, 134>>, -48, <<21292, 7683, 14516, 141>>, -49, 25, <<18563, 31534, 30202, 175>>, -52, <<24325, 15662, 17865, 142>>, -52>>,
       <<3, 12, 59, 11, 1, <<27762, 17198, 17699, 191>>, -48, <<10804, 27555, 5488, 239>>, -52, 20, <<12294, 12401, 29414, 249>>, -53, <<7905, 9347, 19565, 162>>, -52>>,
       <<1, 22, 18, 30, 1, <<8410, 4977, 6229, 129>>, -47, <<7618, 819, 2597, 162>>, -54, 130, <<10959, 19152, 27409, 182>>, -55, <<9775, 6819, 19428, 158>>, -52>>,
       <<2, 20, 8, 27, 1, <<24325, 5408, 25669, 252>>, -49, <<13321, 18982, 16669, 188>>, -50, 252, <<6227, 3249, 24146, 136>>, -51, <<22204, 10491, 10336, 166>>, -52>>,
       <<19, 19, 35, 59, 1, <<2080, 26135, 23056, 163>>, -48, <<30006, 20391, 23538, 150>>, -49, 178, <<23584, 20213, 25692, 150>>, -50, <<10352, 30607, 5335, 151>>, -52>>,
       <<26, 21, 13, 6, 1, <<24254, 14142, 23547, 152>>, -47, <<19450, 621, 5755, 227>>, -57, 62, <<3052, 25420, 7754, 208>>, -52, <<13427, 24424, 1069, 161>>, -52>>,
       <<23, 6, 4, 0, 1, <<32464, 1042, 23983, 145>>, -47, <<29724, 2189, 4161, 250>>, -52, 242, <<22988, 21058, 9078, 170>>, -53, <<3975, 26206, 14882, 142>>, -52>>,
       <<16, 10, 20, 51, 1, <<27807, 22393, 4594, 235>>, -49, <<13055, 23627, 4658, 174>>, -53, 34, <<12712, 12819, 9507, 214>>, -53, <<9454, 29998, 15852, 157>>, -52>>,
       <<28, 5, 41, 20, 1, <<16786, 10861, 459, 145>>, -48, <<12896, 5775, 9511, 250>>, -49, 113, <<31945, 19025, 16602, 165>>, -54, <<6401, 13786, 21709, 157>>, -52>>,
       <<15, 0, 9, 49, 1, <<16809, 17430, 14368, 229>>, -47, <<27910, 12435, 10020, 172>>, -50, 214, <<20472, 3691, 23156, 197>>, -53, <<8203, 18855, 18625, 163>>, -52>>,
       <<4, 11, 0, 22, 1, <<2956, 548, 20592, 254>>, -49, <<10494, 15664, 13874, 182>>, -50, 200, <<11371, 20780, 29645, 241>>, -51, <<15609, 4055, 21147, 142>>, -52>>,
       <<4, 19, 20, 39, 1, <<18848, 18266, 12431, 153>>, -50, <<14437, 28945, 23083, 137>>, -51, 211, <<22399, 30316, 9550, 168>>, -52, <<31177, 28896, 11486, 151>>, -52>>,
       <<7, 9, 37, 46, 1, <<24118, 9327, 26628, 166>>, -49, <<22797, 5456, 16612, 219>>, -54, 220, <<27128, 17770, 14639, 146>>, -50, <<30511, 15487, 20734, 146>>, -52>>,
       <<2, 16, 35, 3, 1, <<16356, 27408, 16424, 138>>, -47, <<32010, 13505, 26640, 241>>, -51, 190, <<8459, 4205, 31318, 165>>, -49, <<1568, 13952, 8096, 161>>, -52>>,
       <<21, 12, 52, 31, 1, <<16139, 26989, 15650, 173>>, -47, <<16159, 17946, 18961, 220>>, -50, 226, <<8000, 12730, 12533, 137>>, -55, <<28559, 28042, 20862, 143>>, -52>>,
       <<7, 13, 59, 57, 1, <<20473, 14865, 25118, 134>>, -47, <<15478, 9112, 7313, 176>>, -52, 213, <<20042, 11924, 31121, 168>>, -53, <<26346, 30517, 16556, 163>>, -52>>,
       <<29, 22, 38, 48, 1, <<23208, 12408, 23721, 217>>, -48, <<20368, 26199, 11542, 191>>, -52, 18, <<5921, 19954, 1315, 135>>, -50, <<25420, 30510, 19326, 152>>, -52>>,
       <<6, 22, 43, 31, 1, <<3308, 23995, 23677, 221>>, -48, <<28317, 31018, 3835, 167>>, -48, 22, <<24324, 21815, 31514, 216>>, -54, <<7050, 15993, 12618, 159>>, -52>>,
       <<18, 22, 23, 43, 1, <<19656, 4918, 17061, 177>>, -50, <<19973, 9205, 5314, 211>>, -50, 171, <<21871, 22481, 19386, 130>>, -50, <<11073, 9891, 15259, 156>>, -52>>,
       <<29, 6, 43, 46, 1, <<12874, 81, 18573, 178>>, -48, <<11392, 21981, 15251, 224>>, -53, 186, <<15126, 25238, 10473, 160>>, -50, <<18985, 18785, 25815, 159>>, -52>>,
       <<2, 9, 33, 42, 1, <<16974, 27699, 1718, 161>>, -47, <<5417, 28788, 11237, 238>>, -52, 231, <<11329, 24055, 31561, 159>>, -53, <<8298, 19123, 29420, 149>>, -52>>,
       <<21, 9, 25, 57, 1, <<15416, 1960, 4512, 208>>, -51, <<5471, 30699, 11496, 206>>, -53, 70, <<24642, 16898, 19985, 134>>, -48, <<17203, 27112, 7494, 150>>, -52>>,
       <<23, 21, 34, 25, 1, <<20376, 14555, 15926, 134>>, -49, <<23386, 27975, 31987, 158>>, -51, 202, <<28032, 2604, 7350, 140>>, -53, <<21352, 1186, 14476, 145>>, -52>>,
       <<6, 3, 28, 13, 1, <<17558, 2600, 15638, 135>>, -48, <<26751, 234, 16170, 163>>, -52, 254, <<2734, 30382, 21749, 216>>, -51, <<23574, 3809, 13360, 161>>, -52>>,
       <<16, 13, 18, 21, 1, <<27826, 10216, 13545, 236>>, -48, <<10049, 18415, 6853, 190>>, -50, 76, <<1702, 1180, 24652, 192>>, -49, <<23211, 20436, 5634, 146>>, -52>>,
       <<12, 3, 29, 54, 1, <<631, 5421, 11987, 189>>, -49, <<31597, 19053, 18823, 148>>, -51, 113, <<5763, 14402, 5387, 155>>, -50, <<28232, 15154, 13915, 160>>, -52>>,
       <<0, 16, 5, 3, 1, <<2582, 26544, 31116, 146>>, -47, <<1003, 28562, 11892, 219>>, -51, 47, <<20231, 12836, 25708, 226>>, -49, <<26509, 20353, 30435, 159>>, -52>>,
       <<4, 19, 9, 49, 1, <<12582, 6436, 23077, 130>>, -47, <<26682, 1548, 948, 141>>, -50, 118, <<24012, 1228, 5083, 140>>, -51, <<2385, 18797, 14659, 148>>, -52>>,
       <<13, 18, 4, 28, 1, <<20862, 4229, 23615, 194>>, -49, <<2588, 32073, 6817, 198>>, -51, 49, <<29844, 11218, 31841, 132>>, -49, <<4480, 2280, 28642, 158>>, -52>>,
       <<6, 17, 34, 0, 1, <<14724, 7324, 3034, 167>>, -48, <<15811, 5144, 23767, 204>>, -49, 36, <<11018, 27918, 16291, 219>>, -55, <<10913, 12092, 8539, 142>>, -52>>,
       <<2, 22, 27, 13, 1, <<825, 22733, 5404, 160>>, -49, <<10830, 49, 23901, 183>>, -52, 182, <<8649, 3192, 27701, 178>>, -50, <<19235, 23360, 21769, 147>>, -52>>,
       <<10, 19, 17, 57, -1, <<14528, 22227, 32295, 134>>, -50, <<13363, 9577, 10237, 242>>, -52, 7, <<492, 8900, 29108, 220>>, -50, <<181, 6294, 11753, 141>>, -52>>,
       <<14, 15, 6, 20, 1, <<10414, 26953, 757, 147>>, -47, <<32730, 232, 13188, 137>>, -54, 142, <<396, 22117, 32625, 190>>, -49, <<16019, 13546, 12031, 147>>, -52>>,
       <<23, 16, 18, 50, 1, <<30805, 25273, 19634, 209>>, -48, <<16138, 3844, 19910, 137>>, -51, 161, <<8499, 6179, 13596, 244>>, -51, <<26148, 25241, 16401, 151>>, -52>>,
       <<0, 16, 23, 33, 1, <<26629, 16854, 24534, 241>>, -48, <<4867, 25892, 19424, 165>>, -51, 43, <<6671, 6442, 19742, 150>>, -50, <<3822, 20796, 27861, 154>>, -52>>,
       <<1, 0, 9, 20, 1, <<21763, 31848, 16739, 248>>, -48, <<18765, 20864, 26720, 155>>, -52, 98, <<11618, 15214, 24962, 203>>, -52, <<27961, 17151, 15234, 157>>, -52>>,
       <<7, 5, 59, 58, 1, <<18942, 19018, 27403, 187>>, -49, <<17876, 7827, 23902, 196>>, -51, 192, <<22898, 9772, 4446, 148>>, -50, <<32324, 19115, 31290, 145>>, -52>>,
       <<30, 3, 45, 51, 1, <<2200, 18478, 23497, 211>>, -51, <<19254, 15216, 6140, 168>>, -49, 214, <<21775, 22727, 9479, 196>>, -50, <<8895, 5928, 29923, 146>>, -52>>,
       <<25, 16, 1, 24, 1, <<32457, 20621, 13082, 211>>, -48, <<6617, 15203, 4658, 253>>, -54, 44, <<29850, 20371, 8800, 190>>, -52, <<6587, 1455, 7786, 161>>, -52>>,
       <<26, 17, 42, 18, 1, <<31276, 16730, 14633, 148>>, -50, <<28044, 2478, 9099, 132>>, -52, 8, <<3260, 30291, 16545, 248>>, -53, <<13528, 26787, 26087, 148>>, -52>>,
       <<13, 7, 17, 41, 1, <<21218, 21927, 15269, 168>>, -48, <<5246, 20354, 30022, 189>>, -51, 263, <<13242, 21304, 12594, 218>>, -50, <<7380, 18838, 4019, 145>>, -52>>,
       <<22, 7, 36, 31, 1, <<13168, 13001, 25250, 170>>, -49, <<32354, 6701, 23815, 185>>, -51, 246, <<21964, 3131, 8036, 192>>, -54, <<28389, 5837, 24153, 159>>, -52>>,
       <<12, 22, 52, 20, 1, <<6626, 9888, 27259, 250>>, -48, <<21442, 26705, 21805, 206>>, -50, 162, <<18953, 31579, 1735, 140>>, -48, <<24572, 16266, 28915, 165>>, -52>>,
       <<4, 2, 32, 3, 1, <<14259, 6199, 25493, 134>>, -47, <<24054, 27488, 26417, 211>>, -54, 133, <<7328, 15514, 12576, 159>>, -53, <<3969, 16035, 25209, 162>>, -52>>,
       <<18, 11, 56, 10, 1, <<10814, 8002, 3131, 239>>, -48, <<11792, 29037, 8204, 185>>, -49, 213, <<12666, 31815, 28658, 130>>, -51, <<32360, 7552, 104, 162>>, -52>>,
       <<20, 23, 25, 32, 1, <<5837, 26661, 5433, 132>>, -48, <<21246, 23765, 27481, 136>>, -51, 75, <<16601, 28294, 10057, 165>>, -51, <<17317, 21471, 22759, 159>>, -52>>,
       <<26, 2, 32, 19, 1, <<4365, 27493, 23427, 150>>, -48, <<12966, 4258, 3223, 215>>, -50, 66, <<20058, 15261, 24642, 221>>, -55, <<20599, 19080, 9075, 145>>, -52>>,
       <<7, 22, 22, 2, 1, <<724, 23839, 5424, 215>>, -48, <<18480, 18320, 4782, 233>>, -52, 191, <<14504, 26107, 12323, 207>>, -56, <<26907, 3974, 19039, 148>>, -52>>,
       <<11, 16, 38, 8, 1, <<10493, 17251, 11001, 216>>, -47, <<31185, 22601, 17203, 248>>, -50, 207, <<21926, 32407, 32371, 201>>, -51, <<25100, 30447, 5904, 163>>, -52>>,
       <<1, 23, 45, 37, 1, <<28100, 13792, 10628, 131>>, -48, <<9480, 3561, 18439, 176>>, -53, 147, <<12759, 32153, 21063, 155>>, -50, <<24180, 16265, 2103, 153>>, -52>>,
       <<13, 5, 22, 21, 1, <<21764, 12742, 30044, 165>>, -50, <<20113, 31455, 11369, 156>>, -49, 83, <<19574, 28297, 32368, 231>>, -50, <<26863, 15912, 3323, 160>>, -52>>,
       <<6, 13, 8, 58, 1, <<22590, 7206, 5294, 134>>, -47, <<3388, 7810, 9710, 161>>, -50, 120, <<19926, 3046, 30494, 155>>, -54, <<21172, 21308, 32521, 146>>, -52>>,
       <<24, 13, 10, 52, 1, <<15054, 9121, 2252, 234>>, -47, <<3159, 5802, 24625, 225>>, -52, 222, <<20495, 17797, 18788, 151>>, -55, <<1922, 20250, 29953, 163>>, -52>>,
       <<13, 21, 40, 55, 1, <<17950, 24134, 1909, 144>>, -47, <<17579, 27819, 21691, 180>>, -55, 35, <<515, 4518, 14396, 149>>, -50, <<25955, 22634, 15654, 155>>, -52>>,
       <<4, 2, 43, 32, 1, <<32372, 25461, 5258, 244>>, -49, <<22046, 12028, 1335, 214>>, -50, 201, <<16934, 19388, 23132, 169>>, -50, <<31223, 11254, 9891, 163>>, -52>>,
       <<14, 7, 11, 53, 1, <<19905, 4052, 14528, 188>>, -47, <<17510, 31338, 12377, 147>>, -50, 26, <<23051, 8981, 20963, 143>>, -53, <<22669, 9959, 2345, 165>>, -52>>,
       <<18, 3, 54, 6, 1, <<6484, 8768, 24852, 157>>, -48, <<27650, 11504, 24555, 180>>, -53, 260, <<22968, 25332, 13299, 128>>, -51, <<12975, 25039, 16283, 157>>, -52>>,
       <<22, 8, 0, 7, 1, <<16885, 5620, 18486, 250>>, -49, <<22190, 25003, 28672, 187>>, -52, 61, <<11148, 29500, 17515, 143>>, -55, <<30076, 4144, 12603, 144>>, -52>>,
       <<28, 12, 48, 34, 1, <<1712, 21338, 11563, 223>>, -48, <<13248, 482, 22860, 139>>, -52, 237, <<7569, 4933, 18219, 139>>, -51, <<4164, 32738, 30832, 140>>, -52>>,
       <<10, 19, 59, 32, 1, <<5843, 20273, 2253, 165>>, -47, <<31356, 2585, 26192, 135>>, -50, 106, <<26306, 31045, 8237, 194>>, -52, <<28782, 3539, 969, 143>>, -52>>,
       <<18, 6, 54, 40, 1, <<28738, 8765, 22819, 130>>, -48, <<20512, 12324, 6560, 154>>, -55, 192, <<1179, 13195, 32324, 229>>, -52, <<21791, 670, 19442, 164>>, -52>>,
       <<18, 11, 7, 7, 1, <<1156, 13015, 21870, 232>>, -50, <<21863, 11337, 20836, 179>>, -50, 90, <<4212, 16619, 27264, 147>>, -49, <<17057, 2867, 8771, 159>>, -52>>,
       <<29, 12, 46, 22, 1, <<31852, 19330, 4248, 150>>, -47, <<3788, 2834, 32421, 211>>, -55, 146, <<2448, 14826, 31080, 233>>, -52, <<16382, 16812, 8118, 150>>, -52>>,
       <<19, 16, 32, 11, 1, <<23919, 9914, 566, 173>>, -48, <<24844, 13640, 13354, 227>>, -49, 105, <<26950, 20677, 17300, 172>>, -52, <<13507, 5447, 32693, 155>>, -52>>,
       <<21, 8, 56, 38, 1, <<28135, 23054, 32747, 243>>, -49, <<18619, 28108, 17259, 165>>, -49, 84, <<3309, 27973, 22349, 129>>, -50, <<6806, 16807, 12051, 154>>, -52>>,
       <<1, 16, 40, 11, 1, <<26771, 30769, 18857, 184>>, -48, <<13382, 14147, 24147, 137>>, -50, 213, <<24580, 27985, 1204, 157>>, -51, <<11839, 1324, 19172, 149>>, -52>>,
       <<27, 20, 53, 42, -1, <<2696, 11205, 18844, 206>>, -51, <<23156, 7821, 27504, 179>>, -51, 99, <<2396, 5934, 14493, 140>>, -52, <<2965, 4012, 32703, 160>>, -52>>,
       <<2, 2, 27, 43, 1, <<16789, 17666, 28932, 183>>, -48, <<29140, 21638, 24849, 245>>, -52, 48, <<30979, 435, 4486, 178>>, -52, <<514, 31340, 6143, 156>>, -52>>,
       <<6, 1, 55, 27, 1, <<6962, 30464, 21249, 148>>, -47, <<14618, 11110, 5746, 180>>, -51, 196, <<20763, 25136, 25196, 137>>, -50, <<27308, 10066, 1117, 165>>, -52>>,
       <<17, 2, 42, 46, 1, <<1390, 14019, 30385, 181>>, -48, <<9873, 1491, 20022, 238>>, -52, 64, <<5961, 5212, 24448, 188>>, -53, <<13900, 1343, 3071, 166>>, -52>>,
       <<12, 17, 4, 29, 1, <<13769, 8947, 22907, 228>>, -49, <<26000, 23569, 31639, 142>>, -55, 67, <<3774, 8087, 5287, 224>>, -54, <<32322, 4103, 11211, 143>>, -52>>,
       <<26, 9, 50, 49, 1, <<2694, 31582, 27291, 198>>, -49, <<14859, 4428, 4090, 214>>, -51, 122, <<24418, 32306, 21746, 177>>, -52, <<29504, 13785, 12942, 150>>, -52>>,
       <<17, 8, 48, 28, 1, <<25186, 27777, 25093, 146>>, -48, <<14665, 960, 24840, 217>>, -52, 126, <<1764, 9326, 16946, 169>>, -49, <<22292, 27963, 19745, 160>>, -52>>,
       <<12, 1, 44, 21, 1, <<1720, 19037, 12742, 139>>, -47, <<15624, 19197, 29830, 140>>, -51, 109, <<20059, 14508, 25074, 149>>, -53, <<24030, 8671, 25907, 153>>, -52>>,
       <<10, 6, 3, 50, 1, <<22080, 15138, 3517, 141>>, -48, <<10232, 9410, 6070, 231>>, -53, 125, <<9852, 6509, 29701, 162>>, -50, <<28977, 26091, 3509, 146>>, -52>>,
       <<17, 7, 21, 56, 1, <<19432, 4061, 7330, 177>>, -48, <<2083, 4276, 32074, 209>>, -50, 8, <<5864, 18719, 27285, 247>>, -52, <<30864, 14316, 22984, 154>>, -52>>,
       <<20, 1, 10, 53, 1, <<6670, 24228, 13251, 186>>, -47, <<12480, 8568, 30191, 243>>, -51, 140, <<5990, 6870, 1923, 215>>, -54, <<3318, 2570, 1214, 161>>, -52>>,
       <<19, 8, 45, 57, 1, <<18293, 2781, 8259, 245>>, -48, <<7562, 25881, 11804, 211>>, -51, 70, <<25234, 32236, 22417, 180>>, -52, <<12995, 721, 3803, 148>>, -52>>,
       <<14, 10, 56, 50, 1, <<731, 30623, 16005, 196>>, -48, <<21490, 30155, 25128, 137>>, -50, 179, <<32418, 1436, 1372, 201>>, -52, <<23382, 19169, 32259, 161>>, -52>>,
       <<12, 2, 47, 8, 1, <<31832, 25423, 12111, 135>>, -50, <<11390, 4187, 31512, 175>>, -52, 63, <<16661, 21794, 27280, 170>>, -49, <<17143, 4490, 14781, 146>>, -52>>,
       <<21, 21, 42, 2, 1, <<30659, 576, 25734, 157>>, -47, <<520, 17008, 22993, 188>>, -50, 126, <<27712, 32376, 21622, 156>>, -50, <<4224, 4246, 30679, 147>>, -52>>,
       <<14, 2, 18, 49, 1, <<10883, 2923, 6144, 157>>, -47, <<9751, 29584, 12168, 223>>, -52, 135, <<22488, 23961, 17551, 128>>, -50, <<13737, 19790, 5049, 162>>, -52>>,
       <<7, 7, 4, 59, 1, <<19150, 32202, 25726, 130>>, -47, <<11844, 5623, 30284, 171>>, -50, 127, <<21366, 1144, 17960, 179>>, -50, <<19070, 27464, 16654, 156>>, -52>>,
       <<13, 13, 3, 29, 1, <<22940, 27152, 18568, 226>>, -47, <<5910, 12698, 22173, 137>>, -50, 45, <<4460, 21193, 14447, 163>>, -54, <<31164, 21974, 1473, 163>>, -52>>,
       <<1, 9, 59, 15, 1, <<24665, 32573, 2490, 147>>, -47, <<18337, 8974, 6141, 208>>, -51, 13, <<19520, 26132, 12724, 134>>, -52, <<802, 16356, 24544, 146>>, -52>>,
       <<13, 23, 54, 26, 1, <<19696, 26210, 4795, 207>>, -48, <<21397, 2508, 23912, 147>>, -49, 233, <<8473, 1776, 12846, 185>>, -49, <<24767, 3320, 8173, 156>>, -52>>,
       <<21, 16, 54, 22, 1, <<7394, 23571, 31898, 158>>, -48, <<5093, 5372, 11550, 161>>, -49, 74, <<3905, 12298, 12695, 165>>, -50, <<3267, 23157, 32742, 154>>, -52>>,
       <<17, 13, 51, 52, 1, <<10178, 9749, 12773, 228>>, -48, <<19652, 20591, 32224, 234>>, -51, 205, <<28503, 25300, 11359, 143>>, -50, <<13634, 2949, 24513, 147>>, -52>>,
       <<17, 23, 33, 10, 1, <<11960, 1120, 5981, 182>>, -47, <<11404, 19247, 25317, 202>>, -52, 49, <<17427, 30896, 17408, 166>>, -54, <<28811, 8091, 20952, 145>>, -52>>,
       <<21, 5, 16, 22, 1, <<7780, 28557, 29609, 167>>, -49, <<32600, 3742, 4743, 133>>, -51, 157, <<9794, 26753, 2189, 165>>, -54, <<6870, 16820, 720, 150>>, -52>>,
       <<11, 3, 35, 17, 1, <<16351, 1038, 8722, 246>>, -47, <<15307, 12225, 31302, 177>>, -49, 141, <<8827, 9330, 3347, 231>>, -50, <<24857, 23743, 15051, 150>>, -52>>,
       <<25, 22, 25, 28, 1, <<9634, 7797, 4152, 194>>, -47, <<20240, 18915, 23137, 194>>, -50, 175, <<20908, 3725, 9340, 225>>, -53, <<9035, 14677, 6982, 163>>, -52>>,
       <<10, 16, 3, 46, 1, <<28384, 92, 16836, 162>>, -50, <<27376, 28900, 18579, 230>>, -49, 201, <<29578, 25018, 23940, 247>>, -52, <<17097, 4637, 1281, 157>>, -52>>,
       <<21, 15, 38, 27, 1, <<31294, 22019, 7732, 191>>, -48, <<3954, 21179, 18675, 150>>, -53, 256, <<20392, 8736, 10086, 177>>, -52, <<29961, 31919, 4596, 142>>, -52>>,
       <<12, 3, 30, 1, 1, <<2797, 21012, 23039, 166>>, -47, <<16145, 5949, 15721, 152>>, -52, 166, <<25712, 21831, 15196, 217>>, -51, <<24912, 27245, 11745, 156>>, -52>>,
       <<6, 3, 17, 2, 1, <<4372, 29609, 16729, 164>>, -47, <<20152, 24662, 28764, 160>>, -51, 65, <<1042, 25081, 3860, 130>>, -52, <<31926, 21230, 7055, 150>>, -52>>,
       <<9, 20, 43, 46, 1, <<31264, 31718, 714, 143>>, -50, <<8579, 445, 12385, 144>>, -49, 46, <<8047, 17578, 165, 183>>, -52, <<15622, 11640, 14288, 149>>, -52>>,
       <<9, 2, 24, 2, 1, <<4825, 14164, 24208, 146>>, -47, <<16705, 14086, 21985, 144>>, -50, 24, <<10252, 25228, 17651, 239>>, -52, <<30518, 4718, 15256, 165>>, -52>>,
       <<19, 22, 27, 15, -1, <<15316, 23276, 12227, 178>>, -49, <<26334, 28768, 6340, 237>>, -50, 104, <<32766, 10574, 1747, 179>>, -49, <<7628, 18140, 461, 144>>, -52>>,
       <<29, 8, 33, 36, 1, <<7007, 11445, 27892, 158>>, -47, <<8683, 1593, 16822, 233>>, -51, 244, <<20874, 19231, 10896, 162>>, -51, <<13080, 30781, 11244, 155>>, -52>>,
       <<3, 14, 50, 8, 1, <<2277, 17687, 28341, 221>>, -49, <<13727, 12475, 12132, 253>>, -51, 264, <<30126, 13701, 29526, 178>>, -51, <<6473, 29380, 8299, 148>>, -52>>,
       <<7, 2, 28, 40, 1, <<19958, 13187, 529, 218>>, -48, <<20020, 18869, 7242, 205>>, -51, 124, <<20516, 13828, 18759, 167>>, -51, <<28506, 27021, 4893, 166>>, -52>>,
       <<19, 17, 10, 14, 1, <<14856, 4143, 4711, 138>>, -47, <<5951, 19838, 27130, 131>>, -50, 233, <<4760, 2818, 4429, 196>>, -53, <<30201, 3198, 26651, 145>>, -52>>,
       <<9, 12, 18, 10, 1, <<10695, 9018, 18542, 202>>, -48, <<588, 12739, 16905, 189>>, -49, 49, <<7626, 9599, 16364, 239>>, -50, <<28710, 7930, 7763, 148>>, -52>>,
       <<8, 13, 49, 25, 1, <<32069, 19813, 10725, 245>>, -48, <<28248, 865, 31764, 203>>, -53, 5, <<6197, 1605, 12300, 191>>, -51, <<10705, 2876, 8534, 152>>, -52>>,
       <<26, 1, 14, 31, 1, <<19746, 23445, 13643, 221>>, -47, <<27058, 7257, 441, 203>>, -54, 62, <<690, 30222, 11321, 137>>, -50, <<17662, 16905, 26201, 154>>, -52>>,
       <<2, 5, 28, 7, 1, <<3022, 2516, 26738, 200>>, -48, <<32302, 31146, 6643, 150>>, -52, 235, <<19929, 6012, 4685, 178>>, -50, <<25303, 11467, 30098, 165>>, -52>>,
       <<27, 11, 5, 40, 1, <<25835, 2602, 24752, 205>>, -48, <<9162, 22249, 10193, 192>>, -52, 89, <<5633, 22535, 24971, 148>>, -53, <<8386, 18764, 9086, 146>>, -52>>,
       <<11, 18, 28, 58, 1, <<6836, 5418, 26911, 239>>, -48, <<17131, 8780, 11205, 140>>, -51, 107, <<18975, 2830, 21623, 146>>, -49, <<22844, 32308, 18236, 165>>, -52>>,
       <<29, 3, 46, 29, 1, <<14123, 21958, 17967, 183>>, -47, <<9189, 10074, 9596, 227>>, -53, 88, <<10666, 10148, 25243, 141>>, -50, <<10079, 13640, 18734, 153>>, -52>>,
       <<4, 9, 42, 20, 1, <<22380, 20074, 16940, 170>>, -47, <<12776, 26145, 23619, 160>>, -52, 252, <<22094, 14248, 19138, 250>>, -51, <<12536, 3738, 7937, 143>>, -52>>,
       <<2, 11, 12, 44, 1, <<24755, 6154, 32741, 156>>, -48, <<25953, 5892, 10239, 162>>, -51, 155, <<22711, 1617, 31126, 239>>, -49, <<26382, 23861, 31120, 141>>, -52>>,
       <<19, 19, 52, 29, 1, <<8263, 888, 19332, 244>>, -49, <<23521, 32152, 16383, 200>>, -49, 113, <<10942, 28150, 18247, 247>>, -53, <<9505, 161, 23731, 156>>, -52>>,
       <<20, 17, 3, 0, 1, <<27992, 27980, 19022, 229>>, -49, <<6735, 12088, 10370, 200>>, -49, 116, <<28099, 16273, 25139, 133>>, -50, <<25450, 5741, 21449, 146>>, -52>>,
       <<23, 12, 40, 28, 1, <<8164, 18300, 9006, 128>>, -48, <<3128, 12738, 21433, 180>>, -51, 256, <<14506, 26226, 2769, 159>>, -51, <<7204, 30416, 24380, 151>>, -52>>,
       <<12, 6, 46, 54, 1, <<20004, 31311, 21726, 184>>, -47, <<14415, 15075, 309, 207>>, -51, 242, <<25956, 12499, 21911, 175>>, -53, <<17060, 5772, 11007, 147>>, -52>>,
       <<13, 13, 56, 26, 1, <<27240, 32258, 11494, 151>>, -48, <<3038, 14425, 1659, 183>>, -54, 195, <<20986, 8655, 31294, 149>>, -55, <<14843, 27380, 13263, 159>>, -52>>,
       <<3, 2, 33, 56, 1, <<32635, 18062, 30212, 254>>, -49, <<7291, 22436, 7212, 219>>, -52, 69, <<1343, 8686, 29846, 151>>, -51, <<78, 17408, 13754, 154>>, -52>>,
       <<5, 4, 56, 9, 1, <<22490, 29164, 4680, 194>>, -48, <<29226, 7864, 8527, 143>>, -52, 103, <<20033, 24106, 4326, 139>>, -52, <<32244, 29671, 22893, 146>>, -52>>,
       <<27, 11, 37, 50, 1, <<15414, 27132, 1389, 173>>, -47, <<17694, 5002, 30611, 150>>, -49, 30, <<29386, 736, 18808, 163>>, -50, <<2505, 26996, 8913, 147>>, -52>>,
       <<15, 14, 53, 35, 1, <<26844, 19601, 7645, 149>>, -47, <<18892, 16991, 20066, 167>>, -48, 22, <<29456, 30082, 4183, 150>>, -51, <<12312, 6279, 20637, 144>>, -52>>,
       <<9, 9, 31, 58, 1, <<22556, 25057, 32468, 215>>, -48, <<23522, 29919, 13257, 200>>, -52, 10, <<22240, 11549, 26095, 236>>, -53, <<26147, 12072, 6546, 156>>, -52>>,
       <<20, 4, 37, 48, -1, <<18064, 11441, 16465, 158>>, -52, <<16378, 16268, 26185, 230>>, -51, 217, <<19876, 20812, 32226, 176>>, -52, <<3835, 16271, 22376, 164>>, -52>>,
       <<6, 5, 0, 46, 1, <<18153, 18457, 8121, 165>>, -47, <<25354, 2956, 8557, 158>>, -49, 81, <<2000, 6450, 23197, 163>>, -55, <<4130, 20141, 14403, 144>>, -52>>,
       <<20, 2, 16, 48, 1, <<3022, 2577, 14736, 155>>, -47, <<1716, 23397, 24858, 207>>, -50, 175, <<29021, 12504, 2635, 141>>, -49, <<22752, 13580, 16522, 153>>, -52>>,
       <<3, 17, 48, 18, 1, <<1242, 9379, 3335, 152>>, -48, <<2690, 13260, 18346, 255>>, -50, 162, <<7663, 352, 19575, 157>>, -54, <<18271, 11203, 3601, 155>>, -52>>,
       <<0, 16, 39, 18, 1, <<29324, 30097, 32181, 235>>, -48, <<3612, 21305, 21341, 179>>, -51, 13, <<9331, 21931, 16636, 154>>, -50, <<28353, 22927, 31106, 154>>, -52>>,
       <<9, 19, 30, 3, 1, <<27768, 26705, 13627, 170>>, -51, <<4206, 25698, 19803, 135>>, -49, 7, <<6516, 6070, 8348, 188>>, -51, <<7187, 22702, 14309, 155>>, -52>>,
       <<17, 19, 15, 7, 1, <<574, 29918, 29331, 160>>, -47, <<3786, 12239, 8605, 136>>, -54, 113, <<26904, 14894, 7801, 130>>, -52, <<26359, 8640, 21413, 148>>, -52>>,
       <<0, 4, 56, 27, 1, <<20999, 6358, 18039, 235>>, -49, <<10809, 10867, 606, 245>>, -50, 50, <<23412, 16219, 9882, 217>>, -51, <<12739, 18648, 21169, 142>>, -52>>,
       <<0, 12, 19, 53, 1, <<1708, 23004, 26651, 181>>, -48, <<24750, 11524, 18776, 211>>, -50, 215, <<21034, 12450, 25946, 145>>, -50, <<32522, 20428, 29585, 160>>, -52>>,
       <<23, 17, 9, 40, 1, <<12240, 10544, 13396, 162>>, -50, <<2356, 22325, 5724, 141>>, -48, 169, <<10894, 20919, 3275, 234>>, -51, <<21936, 28918, 20376, 151>>, -52>>,
       <<26, 2, 9, 33, 1, <<9081, 1896, 9727, 209>>, -48, <<10386, 3818, 4343, 211>>, -51, 208, <<1681, 7297, 4780, 130>>, -52, <<8740, 10381, 20085, 157>>, -52>>,
       <<6, 14, 37, 19, 1, <<22788, 14371, 13054, 134>>, -48, <<30759, 16278, 7366, 146>>, -50, 84, <<21966, 29452, 28011, 221>>, -53, <<3296, 11561, 3482, 158>>, -52>>,
       <<8, 3, 58, 59, 1, <<24572, 21016, 13152, 167>>, -48, <<26204, 9102, 17173, 165>>, -59, 65, <<1747, 10149, 31005, 171>>, -54, <<25902, 1763, 25022, 144>>, -52>>,
       <<15, 20, 58, 55, 1, <<9305, 18359, 28148, 199>>, -47, <<31757, 21834, 11974, 182>>, -50, 68, <<30610, 18659, 4010, 224>>, -53, <<14439, 1216, 10699, 152>>, -52>>,
       <<12, 13, 41, 31, 1, <<9892, 2704, 15841, 143>>, -47, <<12567, 24970, 19118, 178>>, -50, 176, <<21647, 25018, 2229, 165>>, -54, <<23939, 22065, 425, 141>>, -52>>,
       <<26, 20, 24, 27, 1, <<26512, 17844, 10049, 231>>, -48, <<24694, 4600, 1882, 230>>, -51, 248, <<21700, 7289, 30410, 194>>, -51, <<4512, 7721, 32629, 146>>, -52>>,
       <<16, 20, 22, 46, 1, <<32687, 9466, 21472, 235>>, -48, <<23, 30686, 24508, 214>>, -50, 47, <<1614, 29674, 31602, 168>>, -52, <<15111, 15415, 6711, 141>>, -52>>,
       <<10, 17, 2, 57, 1, <<4114, 18377, 24136, 195>>, -47, <<9821, 16662, 31816, 148>>, -51, 138, <<4338, 9399, 19833, 185>>, -52, <<626, 1215, 14209, 153>>, -52>>,
       <<2, 9, 37, 0, 1, <<13258, 20634, 1694, 198>>, -47, <<23042, 11236, 32366, 186>>, -52, 91, <<10917, 16890, 10685, 132>>, -52, <<129, 3148, 17400, 160>>, -52>>,
       <<10, 6, 48, 59, 1, <<2489, 4199, 20339, 148>>, -47, <<32038, 23646, 22290, 175>>, -50, 56, <<10158, 28237, 20163, 232>>, -52, <<11091, 2841, 30616, 156>>, -52>>,
       <<25, 7, 35, 49, 1, <<9532, 32331, 21069, 167>>, -48, <<1990, 29148, 21693, 167>>, -50, 37, <<12666, 29447, 25274, 208>>, -52, <<22284, 264, 19728, 153>>, -52>>,
       <<12, 3, 21, 6, 1, <<8093, 25176, 11123, 198>>, -48, <<24682, 23326, 16547, 209>>, -49, 207, <<3911, 20169, 26086, 138>>, -50, <<31250, 12699, 9423, 151>>, -52>>,
       <<5, 20, 47, 28, 1, <<2942, 2355, 15248, 234>>, -49, <<1254, 7356, 4440, 187>>, -54, 202, <<12411, 31953, 27996, 131>>, -50, <<30571, 19417, 8076, 159>>, -52>>,
       <<3, 4, 0, 3, 1, <<15088, 5430, 16551, 187>>, -48, <<12840, 23852, 31706, 128>>, -50, 153, <<4281, 30496, 21813, 167>>, -52, <<3795, 6937, 361, 162>>, -52>>,
       <<22, 4, 35, 45, 1, <<18056, 22483, 25733, 146>>, -47, <<3756, 11606, 1193, 140>>, -51, 97, <<19440, 17647, 17253, 224>>, -50, <<30488, 6666, 25808, 142>>, -52>>,
       <<8, 21, 4, 41, 1, <<21114, 4180, 3004, 161>>, -48, <<4067, 2337, 8974, 198>>, -51, 214, <<3465, 26062, 32636, 214>>, -51, <<8229, 30458, 12742, 145>>, -52>>,
       <<22, 12, 16, 54, 1, <<20947, 24809, 5748, 148>>, -47, <<19983, 29904, 11746, 163>>, -59, 134, <<9970, 7249, 29689, 138>>, -51, <<15483, 10760, 30503, 144>>, -52>>,
       <<10, 9, 50, 13, 1, <<3620, 14858, 20465, 237>>, -48, <<20875, 5261, 20279, 139>>, -50, 162, <<2846, 560, 28788, 182>>, -53, <<27793, 6603, 24958, 148>>, -52>>,
       <<30, 18, 53, 14, 1, <<20910, 1452, 14940, 188>>, -49, <<30348, 13346, 13679, 221>>, -50, 152, <<24768, 11150, 24601, 205>>, -49, <<11493, 904, 13672, 151>>, -52>>,
       <<2, 9, 39, 46, 1, <<5631, 25594, 8043, 218>>, -49, <<12774, 25926, 31839, 253>>, -52, 141, <<32224, 30709, 15496, 164>>, -51, <<21523, 518, 12020, 141>>, -52>>,
       <<20, 6, 23, 25, 1, <<612, 18743, 29009, 138>>, -47, <<24022, 24559, 25150, 229>>, -51, 7, <<25744, 31146, 22718, 208>>, -52, <<57, 31050, 8649, 141>>, -52>>,
       <<28, 2, 14, 28, 1, <<27510, 19187, 27873, 187>>, -47, <<5965, 483, 29985, 186>>, -52, 25, <<30240, 7341, 13989, 229>>, -51, <<7763, 5291, 2213, 160>>, -52>>,
       <<8, 18, 43, 50, 1, <<16212, 3189, 26592, 159>>, -47, <<32634, 14317, 5181, 215>>, -52, 199, <<1842, 28128, 6010, 137>>, -51, <<9787, 17378, 26454, 161>>, -52>>,
       <<10, 20, 45, 29, 1, <<3468, 26691, 23227, 184>>, -49, <<8560, 11318, 19940, 219>>, -55, 6, <<4568, 31725, 852, 154>>, -53, <<15070, 12281, 26964, 159>>, -52>>,
       <<16, 12, 17, 1, 1, <<6892, 7698, 15360, 238>>, -49, <<8628, 20942, 15702, 230>>, -51, 20, <<2920, 10376, 7150, 157>>, -51, <<26871, 24257, 712, 149>>, -52>>,
       <<7, 22, 3, 58, 1, <<23242, 3500, 22695, 145>>, -48, <<32461, 2481, 26982, 137>>, -51, 96, <<24162, 1023, 28945, 170>>, -50, <<10519, 8086, 11912, 162>>, -52>>,
       <<1, 23, 14, 47, 1, <<814, 31056, 13461, 184>>, -48, <<10276, 21843, 2099, 176>>, -54, 136, <<4771, 10195, 8693, 168>>, -51, <<23455, 31850, 26809, 160>>, -52>>,
       <<25, 19, 16, 34, 1, <<5297, 56, 14904, 164>>, -47, <<27387, 27937, 30290, 216>>, -50, 71, <<14722, 4408, 18531, 166>>, -53, <<27088, 1308, 19480, 163>>, -52>>,
       <<22, 2, 20, 25, 1, <<2136, 12938, 18716, 191>>, -47, <<27870, 502, 31138, 175>>, -49, 245, <<24727, 7687, 22572, 130>>, -53, <<12652, 10939, 30552, 152>>, -52>>,
       <<7, 7, 58, 56, 1, <<1970, 13226, 1950, 218>>, -49, <<17570, 3370, 9, 177>>, -51, 204, <<26006, 32201, 26688, 135>>, -51, <<8636, 14450, 20013, 145>>, -52>>,
       <<11, 18, 25, 22, 1, <<7181, 26435, 909, 235>>, -49, <<23742, 31364, 12434, 172>>, -50, 224, <<14318, 21322, 10935, 226>>, -51, <<26503, 21224, 18349, 147>>, -52>>,
       <<0, 12, 31, 27, -1, <<368, 13222, 21205, 188>>, -52, <<26898, 19555, 4550, 170>>, -50, 74, <<23912, 13023, 16331, 144>>, -50, <<12485, 24777, 9102, 160>>, -52>>,
       <<4, 19, 11, 32, 1, <<28826, 14337, 24194, 164>>, -48, <<9539, 15970, 6486, 181>>, -51, 257, <<13104, 27296, 26517, 230>>, -53, <<7909, 7048, 21696, 141>>, -52>>,
       <<4, 23, 45, 49, 1, <<2046, 1253, 11178, 157>>, -48, <<23116, 12324, 21776, 143>>, -52, 232, <<10684, 23823, 31951, 221>>, -50, <<31290, 750, 9884, 166>>, -52>>,
       <<10, 0, 53, 37, 1, <<13796, 19746, 7578, 185>>, -47, <<8572, 12850, 10090, 255>>, -54, 140, <<24634, 23275, 24896, 157>>, -50, <<18716, 15975, 25080, 162>>, -52>>,
       <<14, 15, 12, 48, 1, <<14930, 13815, 16049, 164>>, -48, <<32095, 25282, 7955, 141>>, -56, 86, <<6762, 9566, 18497, 212>>, -57, <<17780, 32076, 8684, 164>>, -52>>,
       <<22, 14, 42, 57, 1, <<2716, 29339, 31543, 165>>, -47, <<26240, 6203, 19541, 132>>, -50, 208, <<25290, 10442, 27392, 191>>, -50, <<12897, 14006, 27052, 155>>, -52>>,
       <<30, 18, 42, 1, 1, <<6937, 2420, 18911, 203>>, -49, <<5323, 3596, 11123, 166>>, -52, 211, <<20509, 13543, 3803, 254>>, -50, <<2436, 10981, 18113, 149>>, -52>>,
       <<18, 20, 11, 49, 1, <<2510, 17568, 30869, 191>>, -47, <<8482, 16749, 24484, 167>>, -50, 113, <<18701, 29680, 2574, 241>>, -51, <<26869, 18944, 32271, 155>>, -52>>,
       <<17, 22, 53, 17, 1, <<11616, 22103, 22047, 137>>, -48, <<7714, 11437, 12037, 165>>, -50, 182, <<7876, 28015, 18380, 159>>, -50, <<17436, 1265, 12910, 151>>, -52>>,
       <<17, 14, 16, 28, 1, <<22858, 15335, 13530, 218>>, -48, <<14351, 17568, 22099, 237>>, -49, 112, <<13193, 22537, 30547, 230>>, -51, <<5173, 24669, 8413, 162>>, -52>>,
       <<2, 23, 25, 29, 1, <<10045, 11824, 24513, 225>>, -48, <<3756, 10380, 18389, 143>>, -49, 26, <<4030, 19780, 17088, 172>>, -51, <<21894, 25721, 29034, 149>>, -52>>,
       <<7, 16, 19, 51, 1, <<9315, 15545, 4633, 158>>, -47, <<19880, 5952, 31296, 180>>, -52, 235, <<2624, 6175, 22619, 133>>, -51, <<8911, 12674, 25899, 165>>, -52>>,
       <<22, 23, 8, 34, 1, <<4948, 2569, 7540, 255>>, -49, <<19870, 24188, 522, 188>>, -50, 223, <<17688, 10498, 8758, 185>>, -51, <<30968, 7955, 28960, 164>>, -52>>,
       <<27, 6, 52, 54, 1, <<28912, 809, 7662, 247>>, -49, <<18510, 32568, 10406, 161>>, -51, 64, <<4089, 2587, 18107, 149>>, -50, <<31799, 13559, 14915, 151>>, -52>>,
       <<17, 5, 23, 9, 1, <<5603, 25518, 19913, 186>>, -48, <<1598, 28430, 17248, 241>>, -51, 126, <<26330, 10411, 15479, 222>>, -52, <<2000, 26451, 30350, 147>>, -52>>,
       <<7, 23, 59, 9, 1, <<16193, 9712, 31320, 214>>, -49, <<30305, 26014, 21481, 189>>, -52, 49, <<24384, 17526, 10666, 138>>, -52, <<10218, 26462, 25216, 165>>, -52>>,
       <<17, 5, 23, 55, 1, <<26506, 4974, 7448, 196>>, -48, <<11075, 5964, 15988, 230>>, -52, 96, <<7910, 14301, 18987, 226>>, -54, <<28111, 3231, 21820, 155>>, -52>>,
       <<2, 11, 47, 59, 1, <<20651, 23709, 12357, 196>>, -49, <<28999, 18564, 3744, 214>>, -51, 145, <<19171, 17348, 10479, 236>>, -52, <<7897, 19332, 21150, 148>>, -52>>,
       <<23, 1, 8, 21, 1, <<14316, 29327, 16728, 132>>, -47, <<4192, 2750, 1314, 176>>, -50, 106, <<32454, 24238, 24461, 158>>, -51, <<12241, 13289, 12717, 160>>, -52>>,
       <<20, 17, 12, 15, 1, <<24612, 31018, 15386, 198>>, -47, <<30731, 10407, 25027, 170>>, -50, 38, <<7797, 26025, 1694, 206>>, -51, <<29031, 31100, 26066, 143>>, -52>>,
       <<6, 3, 58, 24, 1, <<9553, 22228, 17166, 155>>, -47, <<23558, 8708, 16301, 176>>, -49, 229, <<3942, 31749, 8092, 166>>, -51, <<29338, 5502, 10957, 153>>, -52>>,
       <<6, 7, 24, 12, 1, <<2911, 6916, 26666, 203>>, -48, <<6530, 12321, 12978, 173>>, -50, 191, <<21807, 25950, 11874, 157>>, -53, <<18108, 4680, 30581, 147>>, -52>>,
       <<1, 15, 21, 31, 1, <<24760, 14393, 27293, 134>>, -49, <<9356, 25390, 5568, 150>>, -51, 99, <<14080, 17572, 27353, 139>>, -54, <<19470, 14280, 1759, 155>>, -52>>,
       <<29, 19, 24, 40, 1, <<4321, 5821, 15236, 226>>, -48, <<21061, 17683, 12401, 186>>, -52, 213, <<25273, 12979, 23097, 141>>, -51, <<10258, 8860, 28727, 155>>, -52>>,
       <<9, 17, 48, 19, 1, <<12268, 18810, 23772, 166>>, -50, <<5462, 24653, 12078, 197>>, -52, 58, <<29023, 19028, 6183, 251>>, -56, <<30017, 17532, 8565, 148>>, -52>>,
       <<26, 12, 38, 36, 1, <<12097, 28411, 3026, 254>>, -49, <<25372, 17020, 30621, 200>>, -51, 189, <<31941, 11120, 5670, 137>>, -50, <<1550, 22855, 30500, 153>>, -52>>,
       <<17, 13, 29, 17, 1, <<4238, 1559, 2491, 128>>, -48, <<21557, 531, 21347, 228>>, -51, 116, <<10466, 27513, 26576, 231>>, -50, <<13881, 30878, 27926, 153>>, -52>>,
       <<19, 0, 56, 51, 1, <<13290, 23250, 19632, 133>>, -49, <<23208, 22968, 29962, 210>>, -49, 1, <<2548, 20566, 12256, 155>>, -56, <<24070, 13765, 9679, 152>>, -52>>,
       <<0, 12, 13, 56, 1, <<16104, 7050, 16818, 143>>, -51, <<14289, 23712, 29646, 243>>, -53, 107, <<21796, 21648, 7270, 171>>, -53, <<11719, 5683, 7256, 142>>, -52>>,
       <<0, 20, 20, 39, 1, <<15510, 22599, 1138, 145>>, -47, <<10319, 3885, 25207, 211>>, -49, 102, <<21232, 17458, 19785, 216>>, -52, <<18677, 17771, 1351, 143>>, -52>>,
       <<23, 16, 20, 50, 1, <<19278, 12281, 16614, 172>>, -47, <<24918, 20989, 17229, 169>>, -50, 184, <<30972, 2285, 30179, 180>>, -50, <<6676, 737, 1551, 165>>, -52>>,
       <<25, 16, 42, 35, 1, <<10868, 3931, 5558, 202>>, -47, <<4566, 17507, 8681, 132>>, -48, 58, <<14940, 5895, 19181, 163>>, -52, <<12265, 24164, 31211, 151>>, -52>>,
       <<13, 7, 55, 58, 1, <<30634, 6251, 9784, 202>>, -48, <<22659, 5834, 18971, 167>>, -48, 208, <<5852, 5476, 24797, 210>>, -53, <<9817, 27360, 32092, 158>>, -52>>,
       <<12, 1, 2, 57, 1, <<19040, 2948, 18484, 227>>, -48, <<27343, 20483, 13329, 206>>, -58, 118, <<30520, 25546, 17607, 133>>, -50, <<30105, 25655, 3244, 160>>, -52>>,
       <<4, 2, 57, 26, 1, <<24538, 23833, 4153, 138>>, -47, <<28397, 8826, 16142, 169>>, -51, 162, <<27804, 19373, 9406, 230>>, -50, <<195, 13578, 27370, 148>>, -52>>,
       <<24, 1, 29, 2, 1, <<7688, 29808, 26857, 131>>, -49, <<18034, 21589, 32389, 133>>, -51, 116, <<9102, 10524, 6576, 146>>, -53, <<27590, 19564, 7763, 153>>, -52>>,
       <<25, 13, 51, 14, 1, <<2756, 7279, 21741, 219>>, -50, <<16574, 7046, 21832, 158>>, -53, 70, <<23740, 6658, 8148, 142>>, -55, <<3881, 15510, 12401, 146>>, -52>>,
       <<20, 2, 21, 39, 1, <<24380, 5647, 13088, 171>>, -48, <<2733, 32361, 7149, 171>>, -50, 40, <<19951, 1287, 28883, 157>>, -51, <<26677, 7579, 30542, 164>>, -52>>,
       <<4, 12, 52, 54, 1, <<3477, 4551, 14083, 224>>, -49, <<15436, 6486, 24462, 140>>, -50, 197, <<29784, 3967, 150, 217>>, -50, <<17036, 29642, 28101, 160>>, -52>>,
       <<10, 11, 11, 38, 1, <<27024, 16477, 6456, 170>>, -48, <<4926, 10156, 13108, 242>>, -53, 220, <<7531, 6328, 29726, 230>>, -53, <<31588, 17772, 20477, 165>>, -52>>,
       <<22, 19, 24, 11, 1, <<6848, 17311, 10454, 155>>, -51, <<16363, 8808, 32640, 181>>, -48, 249, <<9941, 30490, 3349, 224>>, -51, <<21742, 9384, 25632, 163>>, -52>>,
       <<2, 12, 15, 7, 1, <<11952, 2173, 3869, 215>>, -48, <<14135, 16214, 19346, 220>>, -53, 17, <<9586, 21065, 9421, 130>>, -53, <<18965, 1119, 5424, 162>>, -52>>,
       <<2, 13, 13, 46, 1, <<31648, 9010, 17314, 227>>, -48, <<32001, 8213, 19638, 229>>, -50, 241, <<21756, 21788, 15138, 175>>, -53, <<29434, 19889, 7502, 141>>, -52>>,
       <<22, 1, 25, 46, 1, <<17396, 25594, 17271, 140>>, -49, <<20908, 15071, 18279, 206>>, -51, 20, <<20378, 29817, 28234, 203>>, -51, <<3005, 24570, 21381, 156>>, -52>>,
       <<13, 12, 6, 43, 1, <<16346, 31943, 23, 232>>, -48, <<6354, 25901, 2432, 223>>, -49, 100, <<16950, 28250, 7061, 198>>, -52, <<25616, 22332, 4629, 162>>, -52>>,
       <<16, 6, 42, 49, 1, <<15644, 19656, 10421, 182>>, -49, <<10251, 23882, 7976, 143>>, -53, 164, <<30320, 11196, 21105, 145>>, -51, <<12817, 13856, 18587, 154>>, -52>>,
       <<29, 3, 39, 58, 1, <<18270, 950, 13399, 147>>, -48, <<14896, 18854, 23690, 233>>, -51, 194, <<4148, 11162, 3487, 202>>, -53, <<32262, 31327, 21696, 153>>, -52>>,
       <<12, 1, 7, 6, 1, <<2369, 22997, 13792, 135>>, -48, <<3718, 14167, 26788, 217>>, -49, 103, <<28655, 19304, 26325, 190>>, -51, <<29931, 32581, 4003, 151>>, -52>>,
       <<4, 20, 28, 38, 1, <<29876, 23386, 16689, 146>>, -47, <<7862, 17633, 21917, 202>>, -53, 122, <<18950, 3322, 31848, 182>>, -52, <<9757, 32051, 7390, 164>>, -52>>,
       <<7, 8, 36, 9, 1, <<22730, 1703, 5977, 133>>, -47, <<25110, 13493, 5610, 136>>, -50, 112, <<26728, 4380, 8963, 157>>, -58, <<22386, 28814, 27717, 165>>, -52>>,
       <<8, 18, 4, 31, 1, <<17704, 901, 16498, 162>>, -47, <<24916, 6263, 20643, 234>>, -49, 150, <<6400, 22842, 13967, 237>>, -53, <<25650, 11423, 4997, 166>>, -52>>,
       <<22, 13, 32, 17, 1, <<1559, 25666, 414, 135>>, -47, <<3509, 9026, 6245, 164>>, -53, 233, <<2376, 29645, 5648, 187>>, -51, <<25724, 20770, 16400, 146>>, -52>>,
       <<29, 1, 44, 55, 1, <<17369, 22252, 25104, 189>>, -47, <<14620, 27342, 19492, 182>>, -49, 94, <<17122, 10312, 19623, 205>>, -57, <<9542, 8634, 24248, 157>>, -52>>,
       <<2, 10, 10, 20, 1, <<14880, 21536, 28880, 142>>, -48, <<24009, 21602, 3905, 144>>, -49, 173, <<12367, 4775, 6584, 202>>, -53, <<15626, 3538, 1025, 163>>, -52>>,
       <<21, 10, 15, 48, 1, <<4016, 23347, 2297, 234>>, -49, <<2591, 9323, 9973, 182>>, -52, 76, <<25496, 32387, 22213, 194>>, -52, <<22332, 12903, 23897, 165>>, -52>>,
       <<26, 14, 7, 6, 1, <<14827, 4354, 23202, 162>>, -47, <<20182, 15317, 4922, 181>>, -53, 63, <<15334, 19397, 30598, 202>>, -52, <<19559, 3646, 32159, 144>>, -52>>,
       <<3, 20, 7, 4, 1, <<26019, 31421, 466, 217>>, -48, <<13532, 30437, 25840, 216>>, -52, 151, <<22547, 17163, 24895, 161>>, -55, <<28214, 769, 13399, 153>>, -52>>,
       <<3, 14, 45, 51, 1, <<29425, 374, 17356, 139>>, -48, <<30757, 30161, 8441, 225>>, -53, 106, <<3604, 29336, 4902, 157>>, -50, <<10892, 19847, 8523, 160>>, -52>>,
       <<5, 3, 1, 21, 1, <<592, 11034, 20033, 190>>, -48, <<14150, 22015, 17109, 140>>, -49, 30, <<13702, 13280, 4094, 158>>, -52, <<26724, 26458, 11566, 161>>, -52>>,
       <<3, 21, 51, 51, 1, <<4185, 19496, 10001, 189>>, -48, <<790, 19220, 8407, 239>>, -52, 231, <<16596, 28109, 9989, 211>>, -53, <<29446, 27809, 426, 158>>, -52>>,
       <<3, 17, 17, 4, 1, <<4833, 10235, 29721, 128>>, -47, <<31365, 20476, 1612, 143>>, -51, 77, <<5784, 31687, 14362, 130>>, -53, <<7176, 843, 3394, 166>>, -52>>,
       <<2, 20, 30, 18, 1, <<26358, 3811, 32547, 232>>, -49, <<21176, 24235, 14955, 168>>, -48, 187, <<29122, 20437, 5375, 214>>, -52, <<2189, 8533, 8365, 149>>, -52>>,
       <<13, 6, 52, 30, 1, <<24631, 27957, 22370, 155>>, -47, <<26958, 18101, 32035, 129>>, -50, 4, <<13624, 11297, 15801, 244>>, -52, <<31260, 26007, 13144, 153>>, -52>>,
       <<20, 9, 6, 1, 1, <<24161, 31616, 18667, 132>>, -47, <<11106, 8981, 19579, 147>>, -50, 260, <<29394, 14643, 12269, 193>>, -55, <<10822, 26005, 5520, 148>>, -52>>,
       <<2, 11, 2, 41, 1, <<14478, 22095, 666, 141>>, -47, <<14068, 32659, 14057, 250>>, -52, 42, <<27208, 11079, 20534, 215>>, -54, <<32346, 16408, 10273, 156>>, -52>>,
       <<8, 15, 33, 31, 1, <<5037, 3296, 11348, 193>>, -48, <<11453, 19656, 11538, 208>>, -51, 12, <<4376, 5162, 14074, 240>>, -52, <<10996, 1356, 4924, 141>>, -52>>,
       <<19, 6, 59, 1, 1, <<20134, 23776, 19574, 186>>, -47, <<29952, 24129, 22568, 245>>, -53, 159, <<19948, 29108, 10895, 161>>, -49, <<15220, 1803, 2971, 142>>, -52>>,
       <<28, 6, 23, 20, -1, <<5468, 28761, 17711, 129>>, -49, <<19275, 7780, 3723, 184>>, -54, 146, <<22574, 23985, 3802, 160>>, -52, <<30941, 20451, 9242, 164>>, -52>>,
       <<3, 12, 35, 21, 1, <<25887, 20325, 3065, 214>>, -47, <<7780, 11203, 13709, 184>>, -49, 217, <<15462, 2355, 19672, 216>>, -51, <<27744, 1149, 6508, 158>>, -52>>,
       <<12, 15, 58, 4, 1, <<4171, 31105, 12396, 229>>, -48, <<25030, 30494, 15571, 173>>, -50, 104, <<6988, 25696, 26694, 172>>, -51, <<9760, 12706, 7072, 141>>, -52>>,
       <<12, 22, 13, 6, 1, <<17508, 30669, 9000, 224>>, -48, <<14947, 22805, 14085, 206>>, -49, 44, <<6960, 13374, 3742, 147>>, -52, <<4430, 11551, 22714, 163>>, -52>>,
       <<13, 14, 42, 32, 1, <<3051, 6401, 1824, 171>>, -48, <<29645, 8994, 18772, 140>>, -56, 83, <<28542, 21690, 16875, 159>>, -57, <<18632, 12864, 20698, 154>>, -52>>,
       <<2, 4, 8, 28, 1, <<13690, 26631, 29379, 211>>, -48, <<28806, 28138, 31478, 152>>, -51, 219, <<18525, 9284, 24467, 189>>, -52, <<3123, 10714, 2923, 153>>, -52>>,
       <<6, 14, 53, 23, 1, <<27985, 29770, 32411, 197>>, -49, <<14178, 7688, 32578, 165>>, -51, 54, <<25633, 13710, 4375, 209>>, -55, <<24246, 9949, 20242, 163>>, -52>>,
       <<20, 14, 0, 16, 1, <<23632, 26792, 27089, 168>>, -47, <<3604, 21691, 18229, 143>>, -50, 112, <<30440, 24083, 4716, 192>>, -51, <<23697, 30651, 2789, 144>>, -52>>,
       <<12, 19, 8, 38, 1, <<4185, 845, 26294, 195>>, -48, <<13274, 2995, 32668, 164>>, -49, 102, <<11799, 31057, 16651, 145>>, -50, <<8560, 12293, 1532, 158>>, -52>>,
       <<14, 20, 44, 21, 1, <<20164, 4492, 18214, 222>>, -49, <<9496, 27663, 4434, 128>>, -50, 240, <<12354, 3989, 32607, 249>>, -52, <<16472, 28114, 25900, 155>>, -52>>,
       <<18, 15, 38, 50, 1, <<20003, 15649, 25266, 226>>, -49, <<13325, 27628, 30900, 140>>, -50, 154, <<5147, 10970, 21517, 164>>, -50, <<24708, 11780, 28325, 141>>, -52>>,
       <<13, 19, 37, 48, 1, <<25238, 5521, 5889, 150>>, -47, <<19604, 21138, 27088, 132>>, -49, 52, <<11904, 12001, 22042, 196>>, -51, <<22828, 28261, 24059, 152>>, -52>>,
       <<13, 11, 42, 50, 1, <<27264, 11769, 21611, 228>>, -48, <<19706, 26014, 27360, 193>>, -49, 46, <<1742, 23527, 17375, 247>>, -50, <<6056, 21456, 25054, 165>>, -52>>,
       <<19, 21, 3, 10, 1, <<9254, 5391, 12383, 224>>, -48, <<29763, 7677, 30307, 234>>, -52, 215, <<31054, 29517, 14327, 166>>, -51, <<12500, 21581, 21233, 149>>, -52>>,
       <<0, 3, 13, 13, 1, <<23190, 17041, 26428, 129>>, -47, <<26157, 4567, 13476, 161>>, -54, 208, <<17394, 1420, 7351, 168>>, -52, <<17032, 13695, 1901, 151>>, -52>>,
       <<18, 5, 41, 58, 1, <<29705, 9911, 27360, 229>>, -49, <<11049, 30954, 5439, 167>>, -50, 87, <<6760, 1601, 14699, 135>>, -49, <<23619, 8219, 13382, 157>>, -52>>,
       <<9, 6, 47, 49, 1, <<11359, 23760, 6407, 217>>, -47, <<30244, 16509, 8020, 164>>, -51, 161, <<31143, 3914, 7450, 136>>, -53, <<3701, 20718, 3142, 158>>, -52>>,
       <<21, 3, 0, 6, 1, <<9652, 31977, 24651, 159>>, -47, <<28574, 14639, 21441, 137>>, -50, 253, <<1342, 17718, 24445, 253>>, -55, <<13091, 8313, 9364, 155>>, -52>>,
       <<27, 15, 34, 46, 1, <<329, 758, 19648, 230>>, -48, <<31125, 6341, 5879, 163>>, -49, 31, <<20978, 25837, 31696, 182>>, -51, <<775, 3674, 6743, 154>>, -52>>,
       <<8, 3, 29, 29, 1, <<14643, 14005, 22050, 161>>, -47, <<16482, 12546, 31249, 197>>, -49, 18, <<6102, 10030, 5614, 249>>, -53, <<18186, 29220, 29049, 164>>, -52>>,
       <<22, 12, 5, 5, 1, <<3774, 10381, 13035, 243>>, -49, <<25686, 15929, 30991, 147>>, -50, 152, <<3420, 2865, 14571, 243>>, -52, <<23467, 32067, 20315, 151>>, -52>>,
       <<9, 0, 9, 36, 1, <<13426, 14488, 23300, 131>>, -47, <<32304, 4823, 28241, 133>>, -51, 246, <<4020, 12042, 14236, 197>>, -53, <<21968, 17844, 10238, 155>>, -52>>,
       <<6, 20, 43, 53, 1, <<9517, 8608, 28952, 176>>, -47, <<21752, 5561, 32452, 173>>, -53, 135, <<3520, 1483, 4599, 236>>, -52, <<16546, 22367, 1785, 160>>, -52>>,
       <<30, 10, 3, 58, -1, <<24640, 1991, 30886, 209>>, -52, <<8757, 31862, 21902, 128>>, -49, 22, <<19521, 18846, 15785, 131>>, -49, <<1516, 2823, 24005, 152>>, -52>>,
       <<26, 15, 30, 13, 1, <<23504, 3172, 27409, 163>>, -47, <<9433, 23145, 8017, 230>>, -53, 224, <<30474, 20446, 12195, 177>>, -57, <<2138, 9333, 1487, 153>>, -52>>,
       <<4, 22, 4, 41, 1, <<29448, 8762, 15484, 147>>, -47, <<19993, 1126, 19061, 250>>, -51, 123, <<2930, 28931, 24327, 187>>, -52, <<8815, 9909, 3586, 142>>, -52>>,
       <<18, 2, 7, 7, 1, <<18280, 32067, 286, 139>>, -48, <<25540, 17521, 5929, 146>>, -49, 175, <<17885, 10367, 24904, 196>>, -55, <<29948, 3594, 20368, 142>>, -52>>,
       <<15, 8, 59, 13, 1, <<8898, 21648, 1127, 221>>, -48, <<18477, 8536, 31460, 165>>, -50, 1, <<19317, 18652, 7730, 177>>, -50, <<2642, 32246, 12886, 148>>, -52>>,
       <<16, 13, 47, 13, 1, <<19520, 25987, 12182, 158>>, -50, <<5622, 22191, 19096, 180>>, -52, 171, <<17500, 7145, 12371, 221>>, -51, <<658, 2672, 3077, 165>>, -52>>,
       <<13, 17, 58, 59, 1, <<31132, 29394, 27929, 168>>, -47, <<3712, 6649, 27654, 170>>, -51, 220, <<5242, 21765, 22362, 149>>, -53, <<15875, 19464, 10474, 143>>, -52>>,
       <<15, 23, 47, 38, 1, <<20823, 12200, 5073, 225>>, -49, <<9822, 2231, 27199, 159>>, -51, 197, <<17040, 13547, 23824, 160>>, -55, <<23950, 12041, 19947, 156>>, -52>>,
       <<12, 17, 46, 11, 1, <<12227, 1433, 719, 178>>, -48, <<9496, 25421, 26867, 137>>, -51, 203, <<8506, 7770, 31148, 234>>, -49, <<5182, 15091, 31495, 146>>, -52>>,
       <<11, 23, 40, 0, 1, <<2261, 5528, 6528, 157>>, -48, <<32154, 32460, 21793, 168>>, -51, 214, <<19550, 4670, 20977, 206>>, -57, <<14506, 8260, 25762, 145>>, -52>>,
       <<27, 0, 18, 27, 1, <<18498, 18706, 25128, 240>>, -48, <<355, 30607, 11765, 157>>, -54, 99, <<20589, 21639, 26803, 202>>, -51, <<31160, 7689, 18576, 152>>, -52>>,
       <<27, 21, 21, 15, 1, <<210, 14483, 27535, 233>>, -48, <<6814, 12098, 9729, 160>>, -50, 173, <<2320, 6173, 29260, 136>>, -57, <<13472, 9410, 16136, 159>>, -52>>,
       <<20, 8, 0, 5, 1, <<7944, 2065, 2815, 182>>, -47, <<16429, 21284, 19827, 211>>, -51, 158, <<924, 10479, 31637, 172>>, -51, <<23942, 5374, 17537, 155>>, -52>>,
       <<22, 12, 43, 17, 1, <<14228, 3591, 141, 239>>, -50, <<4364, 13206, 14813, 183>>, -54, 168, <<23026, 16542, 32540, 245>>, -52, <<9348, 28992, 29781, 141>>, -52>>,
       <<20, 12, 56, 30, 1, <<24166, 30987, 10206, 207>>, -48, <<14560, 17510, 32702, 178>>, -53, 177, <<9269, 24572, 20755, 232>>, -53, <<28777, 17010, 17332, 151>>, -52>>,
       <<24, 17, 40, 5, 1, <<2144, 10359, 9188, 249>>, -51, <<32522, 17750, 29178, 190>>, -49, 38, <<1208, 15344, 25555, 168>>, -51, <<30689, 7603, 29548, 164>>, -52>>,
       <<23, 18, 17, 48, 1, <<28906, 13512, 17442, 186>>, -49, <<25231, 27013, 6778, 187>>, -52, 1, <<20438, 31999, 7353, 140>>, -56, <<17144, 9650, 28135, 162>>, -52>>,
       <<1, 18, 22, 18, 1, <<31642, 13078, 19072, 160>>, -48, <<16560, 23343, 10952, 151>>, -50, 182, <<22126, 11989, 10095, 152>>, -52, <<1631, 3127, 468, 145>>, -52>>,
       <<17, 1, 24, 44, 1, <<32720, 13795, 17614, 212>>, -52, <<23865, 27628, 29388, 152>>, -50, 48, <<17012, 32160, 17278, 246>>, -51, <<16459, 26320, 19017, 160>>, -52>>,
       <<23, 19, 8, 30, 1, <<6466, 20437, 25060, 211>>, -47, <<4367, 30578, 30844, 142>>, -56, 191, <<8017, 17768, 6903, 212>>, -51, <<16906, 13986, 8047, 161>>, -52>>,
       <<2, 19, 4, 54, 1, <<18756, 8264, 28474, 163>>, -47, <<25497, 82, 21765, 173>>, -49, 93, <<28586, 21571, 1134, 235>>, -57, <<22553, 4038, 20955, 159>>, -52>>,
       <<2, 15, 45, 8, 1, <<503, 1664, 24317, 133>>, -47, <<30699, 11158, 17377, 189>>, -53, 99, <<21818, 3309, 3494, 133>>, -51, <<27060, 27925, 2531, 158>>, -52>>,
       <<19, 6, 1, 53, 1, <<6260, 20183, 6665, 152>>, -50, <<2803, 14069, 4397, 150>>, -48, 151, <<29400, 7054, 27030, 138>>, -52, <<16772, 1205, 26752, 160>>, -52>>,
       <<17, 19, 43, 54, 1, <<30728, 995, 5713, 150>>, -48, <<2320, 5763, 10199, 179>>, -53, 130, <<22098, 22239, 29550, 250>>, -51, <<1230, 5659, 17090, 155>>, -52>>,
       <<25, 2, 17, 10, 1, <<9609, 19680, 13620, 177>>, -47, <<30770, 5931, 4103, 169>>, -52, 144, <<30403, 5416, 14453, 167>>, -50, <<2029, 13261, 5029, 161>>, -52>>,
       <<13, 16, 18, 37, 1, <<14527, 4620, 27732, 145>>, -47, <<13539, 23353, 5336, 164>>, -50, 30, <<26210, 19497, 22742, 255>>, -52, <<25481, 21260, 19357, 143>>, -52>>,
       <<19, 18, 41, 16, 1, <<17117, 12871, 31864, 146>>, -47, <<2316, 15690, 23663, 155>>, -49, 34, <<3984, 15425, 21906, 243>>, -54, <<12110, 5754, 15475, 158>>, -52>>,
       <<24, 22, 16, 45, 1, <<5482, 9186, 8681, 148>>, -48, <<25238, 31492, 953, 166>>, -50, 26, <<24959, 1679, 9663, 140>>, -52, <<23944, 1802, 14101, 142>>, -52>>,
       <<18, 15, 20, 53, 1, <<6958, 10527, 5992, 172>>, -47, <<9902, 32493, 22353, 133>>, -49, 112, <<25298, 10933, 25222, 146>>, -50, <<31768, 2074, 11897, 161>>, -52>>,
       <<7, 23, 53, 3, 1, <<13646, 3052, 17217, 146>>, -47, <<32326, 30914, 30278, 156>>, -50, 246, <<3775, 7680, 11446, 169>>, -55, <<22935, 21495, 5475, 159>>, -52>>,
       <<11, 22, 40, 58, 1, <<2268, 7132, 14528, 221>>, -48, <<4929, 3328, 7417, 134>>, -52, 165, <<19938, 17850, 304, 178>>, -51, <<7186, 31087, 19627, 152>>, -52>>,
       <<19, 14, 34, 51, 1, <<24016, 19762, 24670, 173>>, -47, <<2350, 30560, 14130, 202>>, -51, 253, <<9630, 27432, 31806, 202>>, -50, <<3859, 6582, 12108, 159>>, -52>>,
       <<13, 17, 14, 14, 1, <<10720, 28537, 23820, 208>>, -48, <<23850, 7605, 22167, 159>>, -50, 264, <<22687, 5906, 23056, 219>>, -53, <<14472, 3658, 30038, 164>>, -52>>,
       <<28, 19, 48, 12, 1, <<10218, 2267, 15580, 222>>, -48, <<15055, 4859, 26906, 148>>, -48, 79, <<14942, 13919, 31838, 143>>, -51, <<242, 28369, 6319, 145>>, -52>>,
       <<22, 5, 13, 7, 1, <<31400, 30279, 8187, 254>>, -49, <<1556, 5826, 1495, 192>>, -51, 89, <<21580, 14799, 32435, 144>>, -51, <<28344, 28348, 25568, 152>>, -52>>,
       <<4, 15, 49, 57, -1, <<3388, 20505, 29731, 178>>, -49, <<1669, 12596, 3764, 179>>, -50, 130, <<9895, 32066, 3044, 138>>, -51, <<21467, 22885, 454, 149>>, -52>>,
       <<4, 4, 19, 15, 1, <<30335, 31680, 26923, 166>>, -47, <<4730, 820, 15088, 208>>, -51, 185, <<6262, 32737, 31187, 154>>, -51, <<20530, 21881, 30548, 153>>, -52>>,
       <<28, 5, 58, 45, -1, <<20192, 28654, 20741, 133>>, -50, <<26066, 12038, 4003, 167>>, -49, 97, <<10049, 30382, 27946, 194>>, -54, <<26128, 21348, 30056, 153>>, -52>>,
       <<0, 9, 40, 54, 1, <<16642, 27744, 5588, 175>>, -47, <<7844, 3248, 18641, 133>>, -51, 229, <<32647, 31806, 4637, 216>>, -51, <<29563, 22502, 27121, 153>>, -52>>,
       <<18, 1, 57, 3, 1, <<28223, 3039, 6981, 146>>, -48, <<29842, 19344, 26827, 179>>, -48, 248, <<3362, 22635, 2359, 208>>, -49, <<14104, 1900, 3833, 160>>, -52>>,
       <<13, 16, 51, 49, 1, <<3877, 25642, 19966, 234>>, -48, <<4206, 26345, 22337, 135>>, -51, 251, <<5696, 10105, 638, 164>>, -50, <<31684, 27013, 14275, 149>>, -52>>,
       <<0, 21, 48, 48, 1, <<9012, 30447, 15628, 132>>, -48, <<606, 28272, 8041, 170>>, -52, 83, <<11376, 1999, 8294, 132>>, -52, <<26158, 17072, 15902, 151>>, -52>>,
       <<19, 18, 40, 41, 1, <<12428, 29456, 31507, 181>>, -48, <<23649, 10205, 16592, 226>>, -52, 207, <<16955, 4364, 18561, 237>>, -50, <<14054, 32488, 5867, 159>>, -52>>,
       <<1, 2, 49, 0, 1, <<4118, 7155, 26098, 160>>, -48, <<16955, 13320, 24295, 137>>, -49, 198, <<15804, 17700, 18062, 248>>, -52, <<28029, 11644, 22601, 159>>, -52>>,
       <<21, 7, 25, 15, 1, <<11205, 20924, 309, 159>>, -48, <<23935, 19919, 31343, 129>>, -49, 181, <<16776, 15024, 31418, 130>>, -52, <<2472, 5315, 14830, 150>>, -52>>,
       <<6, 18, 1, 9, 1, <<21388, 25172, 6819, 200>>, -48, <<31526, 8608, 8095, 138>>, -52, 81, <<1119, 4421, 26625, 152>>, -50, <<13586, 4999, 23934, 159>>, -52>>,
       <<20, 5, 18, 17, 1, <<2364, 19887, 22587, 250>>, -49, <<17612, 1027, 32089, 240>>, -49, 44, <<6347, 7538, 26144, 166>>, -52, <<28750, 12840, 29601, 141>>, -52>>,
       <<24, 4, 1, 54, 1, <<19506, 6825, 18267, 133>>, -48, <<7218, 27103, 11725, 141>>, -49, 87, <<6460, 21324, 14549, 249>>, -52, <<18437, 5804, 1339, 153>>, -52>>,
       <<28, 1, 32, 40, 1, <<2836, 31131, 25556, 199>>, -47, <<28261, 4204, 28470, 139>>, -49, 82, <<16072, 734, 24825, 219>>, -55, <<15392, 26329, 12143, 149>>, -52>>,
       <<6, 9, 6, 25, 1, <<24621, 18393, 8703, 225>>, -48, <<15211, 29648, 6538, 145>>, -50, 228, <<21867, 3813, 20555, 212>>, -53, <<22340, 654, 23119, 151>>, -52>>,
       <<18, 11, 55, 15, 1, <<18528, 31269, 18131, 163>>, -49, <<2904, 15094, 32133, 138>>, -49, 209, <<9299, 15647, 31381, 154>>, -50, <<28193, 14003, 13502, 145>>, -52>>,
       <<14, 22, 59, 21, 1, <<12070, 479, 9717, 184>>, -47, <<1080, 21071, 1847, 192>>, -54, 203, <<12680, 17243, 2277, 248>>, -51, <<23482, 27287, 854, 150>>, -52>>,
       <<23, 7, 45, 55, 1, <<9792, 17038, 1144, 243>>, -52, <<26949, 19986, 6478, 151>>, -49, 137, <<13813, 26408, 7378, 162>>, -51, <<4807, 26666, 22545, 155>>, -52>>,
       <<17, 22, 28, 23, 1, <<7744, 12327, 9114, 230>>, -48, <<14560, 19048, 3675, 216>>, -54, 42, <<3356, 18514, 11362, 238>>, -50, <<26832, 450, 6313, 149>>, -52>>,
       <<30, 3, 17, 58, 1, <<18877, 30943, 2835, 137>>, -47, <<585, 879, 7212, 170>>, -49, 265, <<28057, 30016, 6759, 228>>, -53, <<18200, 4959, 23099, 152>>, -52>>,
       <<19, 13, 27, 48, 1, <<7352, 19066, 18594, 190>>, -47, <<24960, 8230, 10709, 188>>, -51, 181, <<14639, 29309, 12994, 166>>, -52, <<25192, 31447, 2766, 164>>, -52>>,
       <<16, 23, 2, 42, 1, <<4705, 1520, 12984, 130>>, -47, <<25322, 8702, 2988, 170>>, -48, 118, <<428, 468, 3426, 159>>, -52, <<15858, 5694, 24302, 154>>, -52>>,
       <<0, 16, 24, 9, 1, <<11255, 11014, 3369, 254>>, -48, <<22228, 21802, 7784, 165>>, -54, 144, <<10786, 12669, 22509, 132>>, -50, <<428, 31666, 30760, 149>>, -52>>,
       <<8, 13, 42, 25, 1, <<21250, 2876, 30918, 242>>, -49, <<11532, 12224, 30118, 220>>, -50, 212, <<30965, 2179, 10611, 172>>, -54, <<14995, 26770, 13196, 154>>, -52>>,
       <<11, 16, 11, 25, 1, <<5352, 25474, 20990, 176>>, -49, <<29382, 13470, 8329, 238>>, -51, 78, <<15654, 31478, 5741, 219>>, -51, <<9258, 11289, 28453, 157>>, -52>>,
       <<7, 1, 41, 8, 1, <<9332, 755, 6266, 136>>, -50, <<10247, 16463, 31719, 156>>, -51, 130, <<8348, 5745, 22529, 186>>, -50, <<4309, 10158, 27233, 164>>, -52>>,
       <<3, 13, 15, 18, 1, <<12600, 24100, 5450, 233>>, -50, <<11494, 29301, 24956, 133>>, -51, 238, <<24123, 14028, 1069, 132>>, -51, <<1614, 21938, 12040, 145>>, -52>>,
       <<21, 20, 50, 39, 1, <<3862, 8882, 28672, 169>>, -47, <<13907, 29671, 31688, 132>>, -51, 155, <<10582, 27807, 23445, 141>>, -54, <<30404, 5192, 22480, 160>>, -52>>,
       <<2, 4, 22, 52, 1, <<32673, 12949, 17343, 189>>, -48, <<16628, 31437, 8818, 245>>, -51, 93, <<8214, 4457, 5062, 140>>, -51, <<18332, 25051, 31103, 159>>, -52>>,
       <<9, 23, 34, 54, 1, <<32456, 8154, 30048, 205>>, -48, <<27341, 23228, 24913, 191>>, -52, 169, <<15676, 16823, 20574, 248>>, -51, <<32091, 23918, 29666, 143>>, -52>>,
       <<11, 6, 3, 41, 1, <<9986, 10162, 4272, 146>>, -47, <<15368, 7296, 24246, 232>>, -53, 106, <<26934, 10177, 11917, 184>>, -51, <<24056, 14045, 20557, 165>>, -52>>,
       <<16, 9, 33, 5, 1, <<23092, 11453, 2824, 134>>, -47, <<24701, 18747, 7955, 156>>, -50, 140, <<30056, 7118, 13642, 144>>, -51, <<30430, 4123, 11853, 149>>, -52>>,
       <<19, 15, 7, 35, 1, <<29961, 8742, 2709, 148>>, -49, <<11876, 28008, 10275, 227>>, -54, 253, <<20909, 27147, 1413, 186>>, -50, <<2597, 4767, 32729, 159>>, -52>>,
       <<29, 6, 19, 23, 1, <<19336, 29192, 22042, 145>>, -51, <<12108, 13837, 12479, 206>>, -50, 246, <<17373, 16875, 8656, 247>>, -52, <<17469, 29870, 13430, 149>>, -52>>,
       <<16, 18, 49, 37, 1, <<21516, 27723, 24376, 207>>, -49, <<15805, 23553, 11778, 212>>, -51, 120, <<30826, 5939, 31819, 157>>, -52, <<6074, 20196, 13033, 145>>, -52>>,
       <<0, 17, 55, 27, 1, <<12756, 415, 12610, 228>>, -49, <<15361, 26148, 31652, 224>>, -51, 180, <<24198, 21540, 22939, 190>>, -49, <<13576, 24, 24120, 152>>, -52>>,
       <<7, 22, 28, 30, 1, <<18957, 7619, 20441, 253>>, -49, <<25883, 15392, 18236, 236>>, -55, 232, <<31676, 7028, 27920, 221>>, -53, <<12018, 17494, 12268, 143>>, -52>>,
       <<18, 17, 53, 17, 1, <<1908, 26175, 2141, 207>>, -50, <<30290, 27210, 10372, 144>>, -53, 172, <<30235, 24541, 22798, 162>>, -49, <<1253, 27354, 20771, 165>>, -52>>,
       <<7, 3, 41, 18, 1, <<1196, 27796, 22387, 130>>, -49, <<24163, 12300, 30077, 184>>, -50, 251, <<10157, 21909, 32405, 146>>, -52, <<1281, 5001, 15428, 164>>, -52>>,
       <<24, 15, 4, 25, 1, <<5728, 17056, 32595, 194>>, -53, <<2482, 5400, 18252, 134>>, -51, 90, <<29619, 6306, 9417, 157>>, -51, <<24991, 14694, 32027, 153>>, -52>>,
       <<27, 17, 12, 36, 1, <<16476, 21371, 31382, 235>>, -48, <<13126, 21488, 29390, 147>>, -50, 258, <<1039, 29492, 21269, 220>>, -51, <<22117, 1812, 22076, 164>>, -52>>,
       <<7, 8, 31, 14, 1, <<15702, 25171, 15464, 239>>, -48, <<13908, 2701, 19929, 183>>, -49, 169, <<25450, 26477, 31554, 145>>, -52, <<30396, 10690, 14131, 162>>, -52>>,
       <<27, 2, 14, 47, 1, <<23024, 20655, 13734, 150>>, -47, <<23659, 9176, 11801, 215>>, -53, 198, <<13554, 26509, 3249, 180>>, -53, <<22420, 17124, 20065, 158>>, -52>>,
       <<20, 15, 44, 44, 1, <<30299, 9843, 5362, 170>>, -47, <<25951, 20457, 20792, 147>>, -52, 123, <<23575, 18190, 21135, 160>>, -52, <<30919, 14627, 1198, 166>>, -52>>,
       <<9, 11, 11, 25, 1, <<13256, 13279, 29427, 176>>, -48, <<27112, 22574, 23296, 135>>, -49, 220, <<12644, 15416, 13484, 148>>, -51, <<18257, 32283, 5854, 164>>, -52>>,
       <<4, 1, 45, 33, 1, <<20346, 13692, 10849, 136>>, -49, <<22164, 8462, 22406, 222>>, -49, 181, <<29142, 25409, 2071, 186>>, -53, <<30697, 20431, 28284, 156>>, -52>>,
       <<10, 14, 37, 14, 1, <<28019, 2264, 7545, 185>>, -47, <<21530, 17353, 24774, 168>>, -54, 83, <<28166, 12132, 8081, 255>>, -53, <<9589, 15760, 19495, 148>>, -52>>,
       <<7, 3, 24, 22, 1, <<9464, 31273, 23904, 172>>, -47, <<5058, 1209, 14153, 182>>, -51, 61, <<28308, 4953, 20990, 129>>, -50, <<6700, 29331, 22605, 154>>, -52>>,
       <<13, 3, 28, 40, 1, <<11758, 17170, 26955, 140>>, -48, <<16122, 8208, 6079, 183>>, -53, 207, <<11242, 5748, 2147, 199>>, -53, <<25664, 16840, 9716, 142>>, -52>>,
       <<6, 16, 47, 58, 1, <<21730, 4539, 11529, 214>>, -48, <<6904, 1235, 18691, 172>>, -49, 90, <<13952, 14883, 30948, 158>>, -52, <<15720, 18927, 5534, 161>>, -52>>,
       <<3, 6, 22, 1, 1, <<2065, 11549, 16333, 247>>, -49, <<9552, 25469, 13806, 217>>, -49, 232, <<8346, 12175, 8631, 153>>, -50, <<26792, 21169, 26328, 153>>, -52>>,
       <<10, 1, 54, 23, -1, <<28032, 4504, 444, 242>>, -50, <<30187, 8351, 27060, 245>>, -51, 27, <<17032, 29052, 11720, 229>>, -51, <<2415, 31716, 30490, 142>>, -52>>,
       <<16, 11, 54, 20, 1, <<22390, 31460, 16117, 138>>, -48, <<2221, 20940, 24640, 172>>, -51, 44, <<13141, 11505, 4321, 168>>, -50, <<4575, 19059, 2517, 155>>, -52>>,
       <<4, 20, 14, 16, 1, <<23038, 5072, 25254, 168>>, -47, <<17074, 27441, 25250, 232>>, -52, 206, <<18156, 19703, 7116, 138>>, -51, <<5042, 16134, 3727, 159>>, -52>>,
       <<24, 11, 52, 3, 1, <<16434, 20108, 7917, 188>>, -48, <<14850, 338, 27457, 150>>, -51, 194, <<14297, 30483, 26070, 212>>, -49, <<27081, 6825, 7271, 153>>, -52>>,
       <<9, 9, 37, 26, 1, <<18129, 12032, 13167, 233>>, -48, <<15696, 5496, 28406, 211>>, -52, 85, <<16545, 32482, 23845, 246>>, -56, <<20892, 24585, 11772, 141>>, -52>>,
       <<30, 19, 39, 37, 1, <<16903, 19140, 29307, 138>>, -48, <<184, 3359, 14479, 195>>, -51, 147, <<14312, 5277, 11087, 182>>, -54, <<4875, 32746, 13216, 156>>, -52>>,
       <<3, 11, 9, 30, 1, <<30259, 31218, 27459, 165>>, -47, <<1260, 21136, 9254, 209>>, -49, 238, <<3760, 28270, 9305, 212>>, -50, <<27800, 22966, 17224, 147>>, -52>>,
       <<24, 18, 32, 0, 1, <<14784, 32003, 31318, 193>>, -52, <<4572, 16005, 23996, 141>>, -50, 227, <<31214, 30870, 28309, 227>>, -52, <<26952, 7462, 15992, 159>>, -52>>,
       <<19, 19, 43, 44, 1, <<5096, 15363, 5432, 190>>, -48, <<32567, 14938, 21565, 199>>, -50, 198, <<32475, 22781, 24687, 151>>, -50, <<27132, 22898, 26395, 156>>, -52>>,
       <<21, 9, 41, 58, 1, <<20444, 20670, 14724, 165>>, -47, <<12354, 5431, 25643, 246>>, -51, 17, <<4650, 26723, 17369, 229>>, -52, <<24034, 17151, 17644, 158>>, -52>>,
       <<20, 21, 58, 6, -1, <<10612, 547, 2277, 174>>, -49, <<30606, 21142, 6881, 237>>, -53, 197, <<29403, 16958, 14588, 132>>, -51, <<9617, 11071, 7965, 156>>, -52>>,
       <<13, 4, 17, 41, 1, <<7151, 155, 22494, 150>>, -47, <<16546, 27938, 11929, 185>>, -48, 210, <<16832, 16264, 10231, 183>>, -50, <<29843, 30754, 23595, 161>>, -52>>,
       <<27, 8, 14, 27, 1, <<7320, 27785, 6439, 187>>, -47, <<11511, 12225, 15338, 137>>, -50, 211, <<49, 19652, 23230, 234>>, -51, <<24695, 17658, 19664, 145>>, -52>>,
       <<26, 6, 59, 21, 1, <<31922, 17421, 20064, 190>>, -48, <<6770, 22182, 23284, 188>>, -51, 27, <<22539, 25011, 4234, 191>>, -50, <<9571, 24140, 12121, 144>>, -52>>,
       <<21, 1, 6, 35, 1, <<16873, 7867, 32613, 188>>, -48, <<19737, 13308, 17476, 160>>, -51, 201, <<11400, 2467, 11628, 163>>, -49, <<23329, 29808, 10758, 165>>, -52>>,
       <<3, 6, 19, 24, 1, <<11940, 15565, 30648, 186>>, -49, <<12258, 1707, 28403, 175>>, -49, 194, <<15320, 11068, 29629, 145>>, -53, <<6802, 875, 20623, 147>>, -52>>,
       <<22, 3, 14, 23, 1, <<28874, 20669, 16897, 249>>, -48, <<21796, 1285, 12807, 251>>, -55, 106, <<6629, 7900, 14466, 238>>, -51, <<5878, 24844, 31915, 140>>, -52>>,
       <<1, 9, 14, 29, 1, <<17503, 28672, 13880, 255>>, -49, <<15376, 24557, 30157, 163>>, -50, 17, <<22190, 4569, 14424, 199>>, -52, <<20764, 5266, 28486, 140>>, -52>>,
       <<6, 22, 33, 5, 1, <<23383, 609, 20442, 239>>, -48, <<9971, 5874, 23088, 208>>, -52, 44, <<30872, 6564, 28945, 161>>, -50, <<15578, 28561, 15899, 151>>, -52>>,
       <<21, 9, 50, 2, 1, <<7681, 7856, 11662, 199>>, -48, <<194, 5226, 27245, 182>>, -54, 93, <<19507, 29050, 29720, 190>>, -53, <<18850, 8303, 9896, 147>>, -52>>,
       <<23, 16, 51, 5, 1, <<23453, 9650, 31575, 147>>, -47, <<7436, 4981, 31078, 151>>, -57, 205, <<20726, 30635, 14712, 230>>, -54, <<18950, 9825, 31962, 162>>, -52>>,
       <<3, 4, 39, 47, 1, <<6337, 27368, 4602, 156>>, -47, <<6380, 8698, 30043, 243>>, -52, 56, <<17244, 26009, 11784, 217>>, -52, <<25708, 22703, 4655, 143>>, -52>>,
       <<5, 16, 35, 39, 1, <<7223, 19, 25364, 138>>, -47, <<23601, 12358, 4982, 198>>, -48, 77, <<5922, 27411, 19324, 196>>, -53, <<26337, 21850, 10034, 145>>, -52>>,
       <<10, 22, 2, 34, 1, <<6592, 15407, 134, 188>>, -50, <<3226, 28979, 15260, 135>>, -49, 216, <<13305, 7091, 22425, 226>>, -51, <<12034, 3492, 2511, 166>>, -52>>,
       <<11, 12, 55, 9, 1, <<16783, 3466, 12527, 128>>, -47, <<19740, 28493, 12853, 134>>, -50, 173, <<2565, 8184, 655, 247>>, -52, <<4709, 16490, 11294, 149>>, -52>>,
       <<23, 9, 41, 51, 1, <<26914, 21051, 2054, 245>>, -49, <<20516, 17574, 1194, 234>>, -51, 200, <<19158, 13015, 19155, 203>>, -53, <<3667, 11939, 12951, 153>>, -52>>,
       <<19, 1, 49, 15, 1, <<13480, 25967, 2773, 136>>, -49, <<13824, 3257, 6721, 210>>, -49, 91, <<22783, 12807, 18805, 143>>, -50, <<8762, 4280, 15850, 161>>, -52>>,
       <<27, 16, 28, 7, 1, <<3171, 24786, 1331, 187>>, -48, <<13088, 13586, 26051, 137>>, -50, 52, <<5309, 6737, 14319, 144>>, -51, <<9938, 26178, 22283, 141>>, -52>>,
       <<29, 18, 30, 9, 1, <<9790, 26043, 18468, 143>>, -48, <<19685, 30472, 5583, 139>>, -47, 87, <<2207, 21741, 10922, 167>>, -54, <<26266, 15389, 25457, 155>>, -52>>,
       <<12, 8, 15, 58, 1, <<26304, 11620, 27511, 160>>, -53, <<25124, 7991, 7502, 193>>, -49, 92, <<28912, 7537, 9635, 212>>, -54, <<525, 23885, 26307, 159>>, -52>>,
       <<12, 6, 41, 46, 1, <<9374, 8752, 9601, 235>>, -49, <<31823, 1275, 4986, 229>>, -49, 226, <<6232, 26797, 31407, 172>>, -50, <<7652, 14030, 32276, 158>>, -52>>,
       <<28, 21, 57, 50, 1, <<400, 2972, 20826, 224>>, -51, <<10425, 5810, 22760, 183>>, -51, 3, <<30710, 8722, 10533, 177>>, -51, <<14653, 9835, 17958, 157>>, -52>>,
       <<0, 20, 38, 30, 1, <<22035, 12448, 23209, 232>>, -48, <<4658, 23070, 5635, 169>>, -49, 99, <<19170, 20519, 5678, 226>>, -53, <<30817, 25581, 14995, 160>>, -52>>,
       <<30, 18, 1, 17, 1, <<28132, 28855, 13865, 252>>, -49, <<16380, 3487, 31801, 169>>, -54, 69, <<22029, 5363, 25145, 213>>, -52, <<20276, 1184, 26445, 152>>, -52>>,
       <<11, 3, 53, 20, 1, <<1281, 29656, 29427, 157>>, -48, <<6751, 12315, 15155, 140>>, -51, 189, <<15048, 15306, 25700, 140>>, -52, <<14710, 19725, 8572, 142>>, -52>>,
       <<15, 0, 15, 36, -1, <<14908, 21506, 13220, 132>>, -49, <<28980, 29201, 19513, 192>>, -53, 47, <<24582, 15280, 29431, 228>>, -52, <<31685, 8497, 18290, 152>>, -52>>,
       <<5, 5, 45, 24, 1, <<28432, 12734, 4199, 159>>, -48, <<19470, 8094, 30425, 255>>, -51, 21, <<16714, 4159, 11976, 232>>, -50, <<23486, 32158, 26377, 161>>, -52>>,
       <<25, 13, 30, 49, 1, <<6411, 7030, 281, 130>>, -47, <<6476, 32529, 4204, 134>>, -51, 265, <<16800, 25582, 21989, 135>>, -50, <<25633, 11617, 23276, 155>>, -52>>,
       <<21, 4, 21, 6, 1, <<5168, 5337, 32123, 168>>, -47, <<799, 9148, 25163, 180>>, -56, 166, <<16534, 7096, 11536, 164>>, -50, <<28543, 27758, 5390, 149>>, -52>>,
       <<23, 12, 25, 28, 1, <<2093, 31936, 19307, 235>>, -48, <<8724, 4688, 20385, 212>>, -50, 220, <<32622, 25579, 32180, 222>>, -51, <<31609, 16630, 21748, 163>>, -52>>,
       <<25, 13, 1, 24, 1, <<29918, 25217, 21701, 137>>, -47, <<32417, 22123, 8663, 206>>, -54, 153, <<3299, 12759, 31622, 152>>, -52, <<10792, 19779, 7135, 156>>, -52>>,
       <<25, 17, 22, 1, 1, <<12047, 2952, 17501, 181>>, -47, <<31925, 21966, 3626, 148>>, -54, 103, <<20096, 26571, 14142, 129>>, -52, <<17223, 16797, 6404, 157>>, -52>>,
       <<19, 12, 29, 40, 1, <<2057, 24309, 7512, 131>>, -47, <<28140, 15721, 20252, 247>>, -53, 24, <<19402, 31101, 6488, 179>>, -49, <<17485, 22919, 16070, 146>>, -52>>,
       <<18, 21, 14, 15, 1, <<18396, 12938, 22848, 203>>, -49, <<25962, 31843, 16512, 136>>, -50, 193, <<9617, 31196, 6208, 142>>, -52, <<28093, 8586, 8784, 152>>, -52>>,
       <<17, 1, 38, 40, 1, <<31906, 28820, 3623, 152>>, -47, <<19453, 24705, 3331, 186>>, -52, 259, <<2485, 11067, 5642, 237>>, -53, <<2538, 3317, 24015, 163>>, -52>>,
       <<8, 6, 31, 3, -1, <<22640, 4819, 24037, 138>>, -50, <<6424, 8769, 14979, 252>>, -51, 117, <<1174, 31058, 1634, 162>>, -53, <<25068, 2109, 4413, 154>>, -52>>,
       <<29, 21, 35, 56, 1, <<31530, 6204, 727, 132>>, -47, <<32437, 3102, 13382, 230>>, -51, 128, <<21138, 32016, 7385, 231>>, -52, <<19106, 20315, 19046, 159>>, -52>>,
       <<3, 3, 51, 52, 1, <<31394, 27747, 25275, 130>>, -46, <<23495, 8695, 23364, 230>>, -53, 169, <<24858, 11635, 4045, 200>>, -53, <<20023, 10584, 12732, 146>>, -52>>,
       <<28, 21, 25, 20, 1, <<8930, 9373, 24427, 250>>, -48, <<19672, 28305, 30624, 193>>, -53, 49, <<28247, 2443, 20433, 155>>, -53, <<16231, 27376, 31952, 140>>, -52>>,
       <<25, 6, 57, 46, -1, <<24388, 19896, 29701, 132>>, -48, <<6936, 8955, 15062, 174>>, -49, 2, <<22380, 23477, 12570, 194>>, -53, <<268, 13908, 24303, 162>>, -52>>,
       <<28, 6, 13, 54, 1, <<5588, 1183, 7523, 216>>, -48, <<13741, 29937, 16702, 132>>, -53, 32, <<3324, 16304, 14520, 135>>, -49, <<4833, 26803, 6309, 165>>, -52>>,
       <<3, 3, 17, 8, 1, <<20755, 14734, 19533, 213>>, -49, <<24411, 1434, 21973, 202>>, -52, 29, <<22115, 31773, 4389, 245>>, -51, <<1956, 13991, 12553, 147>>, -52>>,
       <<28, 3, 17, 49, 1, <<30366, 3727, 12972, 233>>, -48, <<16867, 5802, 15369, 171>>, -52, 114, <<17960, 850, 25392, 146>>, -53, <<8643, 26832, 32198, 141>>, -52>>,
       <<19, 15, 24, 56, 1, <<1290, 2407, 13413, 163>>, -48, <<6199, 19403, 748, 152>>, -52, 196, <<9981, 27162, 17634, 207>>, -53, <<12744, 9933, 31111, 142>>, -52>>,
       <<4, 12, 8, 41, 1, <<26494, 22983, 6804, 139>>, -48, <<16172, 11537, 2684, 135>>, -53, 204, <<32544, 608, 15978, 162>>, -50, <<12567, 17461, 15888, 150>>, -52>>,
       <<29, 2, 45, 3, 1, <<1698, 4522, 5273, 196>>, -49, <<15450, 8731, 6605, 172>>, -51, 141, <<32094, 17516, 16630, 205>>, -49, <<17383, 14961, 26664, 161>>, -52>>,
       <<8, 11, 30, 43, 1, <<5655, 27311, 29901, 235>>, -49, <<10198, 3031, 22424, 233>>, -52, 69, <<12348, 31397, 16433, 200>>, -55, <<29083, 2197, 14589, 156>>, -52>>,
       <<1, 4, 29, 6, 1, <<13000, 5602, 28111, 145>>, -47, <<26104, 2047, 1315, 175>>, -53, 55, <<7764, 9235, 3017, 247>>, -52, <<16690, 13897, 22644, 161>>, -52>>,
       <<25, 16, 41, 11, 1, <<19652, 2773, 25989, 203>>, -47, <<1975, 2258, 2898, 159>>, -50, 146, <<12988, 26868, 7466, 189>>, -51, <<26684, 19049, 17606, 141>>, -52>>,
       <<29, 17, 42, 59, 1, <<15240, 29369, 2153, 182>>, -51, <<17642, 15764, 21287, 155>>, -50, 98, <<28976, 28731, 4619, 183>>, -50, <<8412, 21435, 29917, 162>>, -52>>,
       <<7, 18, 22, 26, 1, <<24077, 31119, 23057, 206>>, -48, <<1978, 1374, 15145, 194>>, -51, 170, <<20339, 17796, 23567, 131>>, -50, <<21747, 5210, 17211, 144>>, -52>>,
       <<15, 22, 6, 25, 1, <<5430, 25580, 27591, 162>>, -48, <<23161, 18418, 23544, 250>>, -53, 72, <<14084, 21212, 25361, 222>>, -52, <<31839, 31913, 18817, 142>>, -52>>,
       <<14, 12, 27, 32, 1, <<4378, 12301, 6847, 243>>, -49, <<3483, 28220, 8095, 193>>, -50, 117, <<21002, 26673, 16392, 232>>, -51, <<11193, 25698, 25859, 153>>, -52>>,
       <<1, 16, 5, 45, 1, <<9078, 27148, 7566, 207>>, -48, <<16552, 3372, 27879, 187>>, -49, 106, <<27456, 22173, 4381, 173>>, -51, <<14312, 15870, 7015, 159>>, -52>>,
       <<29, 5, 13, 21, 1, <<17356, 8044, 24859, 141>>, -49, <<31212, 11880, 17626, 218>>, -49, 51, <<3678, 7838, 4616, 234>>, -52, <<16552, 20295, 20498, 144>>, -52>>,
       <<9, 20, 54, 58, -1, <<13074, 2963, 24554, 160>>, -48, <<30212, 30529, 15548, 133>>, -54, 52, <<28868, 27723, 31173, 237>>, -51, <<14651, 230, 17185, 151>>, -52>>,
       <<23, 5, 54, 47, 1, <<23844, 10551, 28105, 184>>, -47, <<12129, 32446, 25914, 179>>, -51, 133, <<29407, 15187, 6932, 131>>, -52, <<9602, 3026, 2569, 153>>, -52>>,
       <<28, 17, 11, 12, 1, <<19296, 18137, 25383, 151>>, -47, <<7054, 1980, 23676, 227>>, -51, 173, <<24974, 15977, 11554, 212>>, -49, <<7260, 7277, 25178, 150>>, -52>>,
       <<13, 2, 47, 53, 1, <<5198, 28191, 17734, 175>>, -48, <<28399, 13484, 1447, 140>>, -53, 160, <<18434, 15547, 21817, 136>>, -52, <<27932, 30311, 22371, 147>>, -52>>,
       <<7, 2, 57, 13, 1, <<4548, 6852, 27063, 138>>, -47, <<1808, 16986, 25599, 216>>, -50, 87, <<30940, 12178, 29618, 159>>, -50, <<29140, 28844, 1609, 151>>, -52>>,
       <<11, 3, 27, 44, 1, <<30694, 1253, 19561, 172>>, -47, <<7628, 15324, 22222, 133>>, -51, 76, <<26662, 29489, 13868, 150>>, -50, <<19895, 1544, 30911, 145>>, -52>>,
       <<8, 20, 10, 4, 1, <<24079, 3088, 4501, 166>>, -47, <<21744, 2405, 30605, 130>>, -54, 216, <<5878, 12168, 14199, 245>>, -53, <<28681, 27241, 1023, 151>>, -52>>,
       <<10, 22, 56, 1, 1, <<26651, 8605, 21914, 214>>, -48, <<22969, 27757, 25489, 133>>, -51, 180, <<3343, 3444, 22556, 132>>, -51, <<2280, 6895, 21255, 142>>, -52>>,
       <<25, 5, 40, 56, 1, <<3713, 24891, 16136, 133>>, -48, <<22010, 8301, 27664, 136>>, -49, 1, <<30785, 16556, 21167, 197>>, -50, <<2393, 18966, 16245, 156>>, -52>>,
       <<11, 4, 33, 21, 1, <<11280, 25764, 24327, 234>>, -48, <<21534, 10990, 31425, 217>>, -49, 69, <<25919, 2349, 14033, 134>>, -50, <<28727, 27549, 6266, 144>>, -52>>,
       <<17, 19, 11, 12, 1, <<22943, 24321, 26044, 183>>, -49, <<24358, 3800, 17726, 153>>, -49, 39, <<4671, 18519, 17473, 160>>, -54, <<25677, 19407, 4012, 143>>, -52>>,
       <<8, 7, 49, 22, 1, <<6174, 22629, 2722, 230>>, -48, <<744, 7776, 27903, 140>>, -51, 15, <<8298, 25947, 4142, 148>>, -52, <<30450, 2226, 11031, 160>>, -52>>,
       <<3, 4, 59, 54, 1, <<4318, 14242, 4135, 205>>, -49, <<30764, 3057, 16417, 178>>, -51, 29, <<19139, 7397, 5828, 184>>, -50, <<21543, 26727, 22341, 155>>, -52>>,
       <<22, 10, 16, 57, -1, <<29512, 11975, 28696, 156>>, -49, <<19978, 6816, 26770, 150>>, -49, 77, <<2154, 4625, 24601, 158>>, -52, <<25613, 31504, 7178, 142>>, -52>>,
       <<28, 21, 16, 18, 1, <<18156, 27817, 31384, 146>>, -47, <<23856, 24044, 7892, 174>>, -52, 120, <<29605, 9798, 1713, 144>>, -51, <<2521, 25417, 2309, 155>>, -52>>,
       <<10, 15, 25, 29, 1, <<18565, 6389, 5606, 129>>, -47, <<18694, 21811, 12164, 128>>, -50, 12, <<29176, 29409, 7940, 214>>, -51, <<2653, 12570, 7086, 149>>, -52>>,
       <<5, 23, 26, 19, -1, <<23284, 18534, 22886, 135>>, -50, <<31646, 10173, 3053, 210>>, -50, 137, <<28488, 1563, 13846, 209>>, -51, <<32686, 6024, 28886, 146>>, -52>>,
       <<22, 0, 36, 5, 1, <<17737, 12916, 30493, 218>>, -48, <<7190, 30786, 23925, 198>>, -51, 121, <<17823, 18753, 24762, 155>>, -53, <<184, 11412, 26723, 161>>, -52>>,
       <<28, 9, 31, 16, 1, <<23754, 20479, 10495, 147>>, -47, <<26134, 266, 11203, 234>>, -51, 256, <<17925, 29382, 5096, 138>>, -49, <<2579, 9776, 26153, 165>>, -52>>,
       <<17, 13, 17, 36, 1, <<5627, 23065, 12967, 160>>, -47, <<31314, 32405, 27941, 180>>, -48, 182, <<1275, 21352, 4068, 164>>, -55, <<4690, 19888, 23243, 143>>, -52>>,
       <<30, 16, 47, 38, 1, <<6312, 14300, 30413, 176>>, -47, <<784, 16499, 3051, 228>>, -51, 87, <<13298, 3910, 21197, 128>>, -52, <<23134, 30146, 13921, 150>>, -52>>,
       <<25, 11, 1, 19, 1, <<13315, 11521, 5959, 176>>, -48, <<17090, 17457, 15587, 216>>, -49, 59, <<16834, 6651, 4291, 146>>, -51, <<8822, 25469, 28371, 152>>, -52>>,
       <<10, 4, 17, 54, 1, <<5274, 24945, 11298, 188>>, -49, <<10370, 31841, 4002, 128>>, -53, 118, <<22042, 9029, 11996, 188>>, -51, <<532, 16215, 733, 165>>, -52>>,
       <<20, 6, 13, 55, 1, <<4388, 18448, 8021, 152>>, -47, <<12530, 28555, 6452, 187>>, -53, 86, <<28130, 20739, 4950, 129>>, -53, <<27737, 26012, 16714, 148>>, -52>>,
       <<3, 13, 7, 8, 1, <<14140, 14834, 30434, 156>>, -47, <<27275, 15378, 19615, 146>>, -52, 101, <<14812, 6878, 18512, 235>>, -54, <<6693, 31838, 4991, 142>>, -52>>,
       <<10, 1, 5, 21, -1, <<19912, 15093, 6805, 171>>, -51, <<31152, 14422, 14124, 205>>, -50, 135, <<7237, 28337, 16454, 168>>, -49, <<25231, 2711, 11886, 141>>, -52>>,
       <<18, 23, 5, 26, 1, <<10315, 301, 4439, 147>>, -47, <<29373, 12261, 15019, 201>>, -53, 229, <<26510, 8102, 2287, 133>>, -49, <<13112, 4636, 16821, 158>>, -52>>,
       <<11, 11, 56, 42, 1, <<16126, 2180, 3991, 224>>, -48, <<1316, 12063, 26687, 164>>, -51, 162, <<9834, 23320, 18630, 145>>, -54, <<5935, 3876, 2134, 165>>, -52>>,
       <<17, 23, 7, 41, 1, <<6718, 3610, 8987, 149>>, -48, <<832, 5532, 22276, 175>>, -49, 100, <<24931, 3749, 3572, 170>>, -54, <<7175, 2284, 21605, 147>>, -52>>,
       <<25, 4, 33, 6, 1, <<4411, 31, 21010, 183>>, -49, <<16710, 20885, 6245, 146>>, -51, 53, <<28966, 15395, 27054, 149>>, -49, <<22403, 22892, 19738, 142>>, -52>>,
       <<5, 4, 2, 43, 1, <<12694, 30404, 6631, 136>>, -47, <<9504, 24869, 15012, 245>>, -53, 250, <<839, 28823, 13671, 198>>, -51, <<16706, 18927, 15025, 157>>, -52>>,
       <<28, 6, 45, 33, 1, <<2134, 27742, 26999, 199>>, -47, <<17561, 29212, 9923, 226>>, -50, 210, <<27726, 17718, 4396, 140>>, -53, <<11829, 7989, 7011, 161>>, -52>>,
       <<18, 6, 54, 14, 1, <<14042, 26621, 20616, 236>>, -48, <<15257, 5414, 24380, 131>>, -51, 104, <<2522, 20169, 12065, 196>>, -52, <<20415, 19463, 28732, 154>>, -52>>,
       <<14, 13, 32, 47, 1, <<19083, 11987, 12377, 200>>, -48, <<5939, 10201, 14085, 159>>, -48, 107, <<18784, 10690, 21255, 138>>, -52, <<29236, 27635, 4539, 157>>, -52>>,
       <<1, 0, 9, 33, 1, <<19235, 15190, 26195, 173>>, -47, <<12224, 22480, 13146, 130>>, -48, 200, <<10644, 25550, 4060, 174>>, -52, <<18725, 30279, 13048, 162>>, -52>>,
       <<18, 0, 42, 51, 1, <<9313, 23988, 7295, 239>>, -48, <<26023, 15289, 27153, 161>>, -49, 264, <<23142, 1772, 22475, 136>>, -54, <<1393, 7402, 18199, 148>>, -52>>,
       <<14, 20, 53, 19, 1, <<11020, 13764, 4476, 133>>, -50, <<10961, 1384, 24631, 191>>, -50, 252, <<18115, 1582, 17127, 133>>, -54, <<4250, 20556, 11425, 159>>, -52>>,
       <<7, 6, 42, 34, 1, <<13707, 1049, 17163, 133>>, -48, <<32717, 29734, 10943, 187>>, -51, 219, <<28241, 18816, 10340, 143>>, -51, <<12931, 17991, 16556, 161>>, -52>>,
       <<19, 21, 15, 28, 1, <<16844, 22547, 17137, 178>>, -47, <<9034, 29938, 1455, 208>>, -52, 113, <<27079, 17786, 9119, 165>>, -51, <<22255, 11895, 12505, 157>>, -52>>,
       <<24, 12, 0, 19, 1, <<14061, 17166, 16370, 239>>, -49, <<2216, 10964, 16558, 137>>, -52, 233, <<15606, 8535, 11053, 220>>, -51, <<19496, 31959, 3607, 163>>, -52>>,
       <<29, 21, 35, 38, 1, <<9205, 23749, 1482, 173>>, -48, <<11692, 19431, 4834, 175>>, -51, 206, <<22624, 321, 32309, 137>>, -50, <<7541, 1492, 27787, 163>>, -52>>,
       <<19, 5, 42, 22, 1, <<1876, 6598, 25690, 223>>, -49, <<3262, 12427, 20884, 204>>, -52, 225, <<22848, 25175, 16314, 237>>, -51, <<29768, 19491, 32386, 140>>, -52>>,
       <<22, 6, 41, 47, 1, <<18879, 26910, 538, 183>>, -48, <<19552, 15189, 28073, 189>>, -51, 233, <<3214, 28518, 251, 227>>, -50, <<26736, 27129, 21786, 154>>, -52>>,
       <<27, 14, 30, 39, 1, <<6122, 30183, 9323, 177>>, -47, <<963, 1528, 16675, 174>>, -50, 201, <<7314, 12779, 19315, 131>>, -49, <<17842, 18775, 4997, 164>>, -52>>,
       <<20, 12, 30, 36, 1, <<30265, 23151, 24283, 201>>, -48, <<22511, 31595, 16771, 137>>, -48, 141, <<1858, 1167, 31887, 224>>, -51, <<16884, 15410, 10723, 157>>, -52>>,
       <<2, 12, 38, 36, 1, <<8932, 4884, 5038, 168>>, -48, <<1262, 12726, 12922, 167>>, -50, 52, <<20106, 23919, 27998, 192>>, -51, <<2741, 15358, 13008, 144>>, -52>>,
       <<26, 15, 7, 22, 1, <<7998, 24439, 15378, 172>>, -47, <<3532, 27740, 26715, 200>>, -49, 64, <<24711, 20051, 24232, 152>>, -50, <<8663, 793, 23807, 155>>, -52>>,
       <<23, 23, 7, 37, -1, <<2304, 5799, 14259, 159>>, -56, <<18020, 23349, 19637, 220>>, -50, 79, <<9386, 29056, 1614, 143>>, -52, <<18388, 24040, 15715, 163>>, -52>>,
       <<14, 5, 57, 43, 1, <<19779, 3350, 18890, 227>>, -49, <<12147, 17369, 10563, 200>>, -51, 163, <<9832, 23329, 20077, 233>>, -53, <<15564, 27259, 31568, 151>>, -52>>,
       <<7, 19, 21, 30, 1, <<18436, 9631, 20377, 192>>, -47, <<28169, 3687, 4545, 132>>, -50, 133, <<24194, 7144, 7886, 148>>, -49, <<14696, 14444, 5856, 163>>, -52>>,
       <<7, 19, 50, 13, 1, <<13638, 22191, 8081, 210>>, -48, <<16393, 19993, 23865, 144>>, -50, 178, <<3586, 19437, 14902, 166>>, -49, <<2173, 26917, 6417, 153>>, -52>>,
       <<1, 17, 6, 57, -1, <<23864, 28563, 30469, 147>>, -51, <<24080, 27945, 23421, 189>>, -49, 135, <<22698, 29483, 15738, 183>>, -51, <<25720, 10696, 6104, 151>>, -52>>,
       <<11, 11, 29, 16, 1, <<9302, 15775, 20131, 230>>, -49, <<29034, 32687, 27095, 236>>, -49, 45, <<5877, 28304, 11303, 169>>, -52, <<29162, 11864, 16114, 147>>, -52>>,
       <<9, 10, 37, 5, 1, <<27379, 21654, 29490, 203>>, -48, <<5560, 17113, 11923, 159>>, -53, 204, <<11097, 10381, 21850, 249>>, -51, <<20139, 21807, 30301, 156>>, -52>>,
       <<14, 5, 15, 7, 1, <<14828, 30379, 10997, 148>>, -47, <<5294, 22991, 3455, 200>>, -52, 180, <<30712, 3103, 2647, 212>>, -52, <<30157, 30571, 3152, 159>>, -52>>,
       <<13, 22, 0, 48, 1, <<17012, 1038, 2803, 169>>, -48, <<3918, 14712, 15631, 160>>, -52, 209, <<30644, 4319, 16492, 172>>, -53, <<6479, 14742, 27840, 142>>, -52>>,
       <<11, 2, 3, 35, 1, <<1794, 3941, 21102, 191>>, -48, <<5683, 3100, 7131, 131>>, -50, 141, <<21180, 21589, 24703, 164>>, -52, <<16966, 14551, 14192, 164>>, -52>>,
       <<1, 6, 10, 30, 1, <<20856, 20243, 28161, 243>>, -48, <<9813, 21354, 1570, 220>>, -50, 15, <<10465, 14843, 9757, 128>>, -50, <<31990, 20932, 28155, 156>>, -52>>,
       <<6, 12, 36, 16, 1, <<4014, 5058, 18853, 159>>, -47, <<25624, 4788, 11711, 209>>, -50, 124, <<23287, 10103, 3429, 128>>, -54, <<24997, 5906, 75, 150>>, -52>>,
       <<10, 23, 5, 25, 1, <<28894, 14367, 2808, 185>>, -48, <<18130, 1108, 1784, 177>>, -50, 157, <<10432, 23256, 9975, 179>>, -51, <<25218, 17606, 20499, 145>>, -52>>,
       <<27, 6, 8, 24, 1, <<8200, 12677, 20771, 174>>, -48, <<9693, 5139, 23176, 190>>, -50, 193, <<10335, 29980, 14960, 211>>, -53, <<24090, 13197, 27401, 159>>, -52>>,
       <<4, 19, 0, 51, 1, <<1939, 14594, 25529, 252>>, -48, <<9634, 27934, 8991, 131>>, -59, 145, <<20810, 949, 24234, 179>>, -51, <<11683, 29609, 4132, 151>>, -52>>,
       <<5, 19, 20, 12, -1, <<32016, 16261, 25652, 160>>, -52, <<5646, 10180, 24209, 170>>, -50, 89, <<5434, 21797, 18074, 158>>, -51, <<27588, 2959, 31134, 140>>, -52>>,
       <<20, 13, 15, 45, 1, <<18742, 5725, 30254, 175>>, -48, <<16634, 21048, 3311, 148>>, -51, 66, <<3080, 5920, 23106, 198>>, -50, <<7955, 27580, 21187, 153>>, -52>>,
       <<12, 0, 4, 25, 1, <<11226, 24114, 3317, 244>>, -48, <<30582, 26854, 675, 184>>, -52, 152, <<19093, 20963, 29032, 183>>, -51, <<26051, 8959, 5298, 153>>, -52>>,
       <<11, 11, 28, 42, 1, <<16493, 9320, 254, 160>>, -47, <<7289, 11872, 5584, 145>>, -50, 203, <<7950, 13826, 7900, 142>>, -51, <<17001, 20942, 25845, 143>>, -52>>,
       <<23, 11, 42, 54, 1, <<6547, 28956, 7685, 246>>, -47, <<25684, 15846, 30664, 162>>, -49, 186, <<3808, 248, 23037, 218>>, -53, <<19489, 7510, 23931, 141>>, -52>>,
       <<23, 14, 25, 7, 1, <<31458, 9947, 2428, 131>>, -48, <<13817, 12293, 28762, 166>>, -51, 246, <<13085, 23326, 14386, 149>>, -51, <<13325, 2042, 24577, 161>>, -52>>,
       <<10, 11, 41, 49, 1, <<15486, 11696, 5917, 240>>, -48, <<7852, 11777, 12584, 192>>, -50, 139, <<5777, 32157, 860, 153>>, -51, <<8287, 7480, 19748, 164>>, -52>>,
       <<8, 22, 40, 9, 1, <<18653, 6470, 29092, 194>>, -47, <<27100, 13825, 29006, 252>>, -50, 198, <<30365, 20732, 8153, 239>>, -53, <<9136, 18076, 10201, 151>>, -52>>,
       <<14, 17, 49, 6, 1, <<10122, 2389, 27552, 162>>, -48, <<795, 10354, 7087, 141>>, -52, 82, <<8635, 16023, 27827, 150>>, -53, <<4029, 12203, 30404, 146>>, -52>>,
       <<5, 9, 4, 10, -1, <<8872, 15786, 20296, 161>>, -50, <<18171, 11744, 5571, 132>>, -49, 213, <<22300, 30989, 19285, 152>>, -50, <<25901, 7527, 20557, 148>>, -52>>,
       <<19, 17, 0, 29, 1, <<4589, 29402, 29797, 150>>, -47, <<1772, 16013, 15803, 209>>, -52, 203, <<1032, 22114, 15320, 170>>, -50, <<21987, 8572, 13963, 155>>, -52>>,
       <<21, 1, 15, 37, 1, <<10232, 6766, 4321, 224>>, -50, <<17014, 6643, 27703, 159>>, -49, 29, <<4424, 27461, 25881, 144>>, -51, <<23599, 23218, 2050, 151>>, -52>>,
       <<2, 19, 9, 58, 1, <<9474, 473, 30644, 141>>, -47, <<1572, 31244, 32086, 129>>, -49, 204, <<23468, 11219, 1978, 156>>, -50, <<12231, 31228, 6030, 155>>, -52>>,
       <<23, 9, 1, 16, 1, <<16562, 12074, 13895, 194>>, -47, <<1466, 11129, 14189, 152>>, -51, 22, <<707, 24317, 17714, 163>>, -50, <<23444, 10294, 19857, 164>>, -52>>,
       <<7, 12, 3, 8, 1, <<28536, 10756, 26298, 254>>, -48, <<11912, 17470, 112, 169>>, -52, 150, <<23914, 29019, 20930, 166>>, -50, <<31980, 14952, 24246, 162>>, -52>>,
       <<29, 14, 6, 15, 1, <<30930, 21281, 14115, 158>>, -47, <<22482, 30271, 1333, 201>>, -54, 211, <<29190, 31199, 29261, 219>>, -56, <<18376, 14149, 17098, 155>>, -52>>,
       <<28, 0, 1, 29, 1, <<8762, 9825, 24786, 220>>, -49, <<16793, 7187, 21214, 205>>, -51, 188, <<6947, 10159, 2716, 136>>, -57, <<12235, 1299, 15266, 151>>, -52>>,
       <<12, 12, 17, 58, 1, <<18190, 31083, 18984, 130>>, -49, <<24836, 29000, 6501, 231>>, -50, 201, <<27494, 12970, 25613, 195>>, -51, <<16780, 6446, 21257, 162>>, -52>>,
       <<8, 14, 14, 34, 1, <<14924, 17100, 2915, 178>>, -48, <<17878, 10019, 23016, 167>>, -51, 105, <<27671, 7348, 31091, 169>>, -51, <<9586, 29696, 8512, 145>>, -52>>,
       <<5, 22, 33, 8, 1, <<40, 27507, 22124, 158>>, -49, <<23692, 31361, 25906, 222>>, -53, 70, <<3388, 23640, 25657, 150>>, -51, <<3207, 2862, 4285, 155>>, -52>>,
       <<7, 3, 47, 20, 1, <<103, 16610, 22965, 165>>, -49, <<9676, 5181, 7635, 163>>, -49, 208, <<19354, 12896, 24248, 215>>, -52, <<11032, 20307, 5039, 148>>, -52>>,
       <<17, 9, 41, 38, 1, <<21410, 12102, 777, 167>>, -48, <<12440, 5680, 26833, 223>>, -51, 188, <<17644, 7110, 20784, 144>>, -50, <<22385, 16753, 29330, 164>>, -52>>,
       <<6, 9, 53, 19, -1, <<10104, 2396, 9779, 128>>, -49, <<9272, 32087, 21426, 162>>, -51, 1, <<8296, 21349, 29653, 241>>, -52, <<31284, 30976, 3631, 148>>, -52>>,
       <<10, 16, 48, 33, 1, <<14891, 18390, 5606, 177>>, -48, <<24836, 21010, 23211, 181>>, -51, 81, <<25713, 13304, 30288, 166>>, -50, <<6974, 24231, 8517, 155>>, -52>>,
       <<30, 16, 10, 19, 1, <<6496, 28200, 14784, 162>>, -51, <<25000, 9997, 27125, 131>>, -49, 130, <<16916, 13531, 6954, 147>>, -51, <<13966, 25366, 24745, 164>>, -52>>,
       <<11, 9, 33, 42, 1, <<13953, 6349, 5746, 145>>, -47, <<13559, 7802, 22694, 170>>, -52, 194, <<31740, 27689, 15775, 184>>, -53, <<8445, 11256, 3538, 158>>, -52>>,
       <<12, 14, 52, 43, 1, <<4677, 12584, 9307, 149>>, -47, <<8609, 27307, 19441, 200>>, -49, 46, <<22407, 13824, 32475, 189>>, -52, <<19532, 20811, 16906, 143>>, -52>>,
       <<19, 20, 17, 56, 1, <<22975, 32591, 29450, 157>>, -47, <<18960, 5285, 6323, 231>>, -51, 115, <<24181, 28483, 23705, 206>>, -52, <<4518, 7067, 9522, 152>>, -52>>,
       <<25, 14, 47, 38, 1, <<19277, 18890, 24595, 151>>, -47, <<23772, 7697, 7692, 191>>, -49, 179, <<27176, 4450, 8249, 174>>, -54, <<13302, 9549, 26513, 153>>, -52>>,
       <<10, 6, 25, 55, 1, <<21110, 23483, 15439, 207>>, -48, <<6703, 9682, 11642, 231>>, -52, 13, <<26619, 17734, 2743, 152>>, -53, <<19302, 13957, 19616, 155>>, -52>>,
       <<12, 20, 31, 53, 1, <<26837, 26432, 273, 205>>, -49, <<2732, 15621, 31911, 254>>, -52, 112, <<32372, 11582, 28926, 162>>, -53, <<7050, 17552, 15740, 160>>, -52>>,
       <<8, 9, 54, 3, 1, <<24555, 21178, 739, 141>>, -47, <<1723, 12426, 24394, 214>>, -49, 38, <<29542, 10365, 4108, 177>>, -50, <<27687, 10958, 5278, 153>>, -52>>,
       <<28, 17, 19, 46, 1, <<11686, 22793, 20017, 193>>, -48, <<22443, 27323, 20297, 225>>, -50, 31, <<4518, 24959, 1453, 180>>, -59, <<7183, 26937, 32555, 148>>, -52>>,
       <<18, 7, 27, 7, 1, <<7460, 7586, 6489, 169>>, -50, <<8084, 12488, 21092, 137>>, -54, 228, <<32613, 30082, 2665, 183>>, -50, <<19766, 24146, 5455, 153>>, -52>>,
       <<10, 19, 34, 52, 1, <<986, 7809, 19692, 147>>, -47, <<2220, 15606, 28806, 220>>, -52, 203, <<30667, 30379, 7267, 214>>, -51, <<26976, 4426, 13066, 154>>, -52>>,
       <<15, 15, 26, 20, 1, <<11234, 8233, 27978, 220>>, -47, <<32396, 27119, 4203, 154>>, -51, 77, <<11349, 19985, 1354, 190>>, -50, <<24672, 13740, 17838, 157>>, -52>>,
       <<23, 18, 48, 12, 1, <<12204, 23201, 8147, 138>>, -47, <<9118, 25699, 18306, 129>>, -54, 28, <<16490, 22107, 8513, 185>>, -52, <<3112, 21977, 6030, 160>>, -52>>,
       <<13, 15, 19, 14, 1, <<16003, 23881, 30365, 190>>, -47, <<8207, 26129, 28148, 187>>, -53, 141, <<4484, 24610, 924, 174>>, -49, <<11748, 17357, 1262, 161>>, -52>>,
       <<19, 2, 11, 19, 1, <<25935, 27191, 26479, 245>>, -48, <<20222, 447, 23735, 142>>, -51, 59, <<1062, 8042, 27955, 232>>, -51, <<7579, 19560, 8948, 165>>, -52>>,
       <<26, 11, 14, 17, 1, <<6717, 20900, 8161, 229>>, -49, <<29314, 263, 29297, 147>>, -49, 225, <<13414, 2341, 3913, 183>>, -54, <<13940, 24494, 24121, 142>>, -52>>,
       <<24, 21, 43, 10, 1, <<4418, 1270, 28350, 153>>, -48, <<4056, 21474, 19885, 234>>, -53, 190, <<11724, 19040, 19960, 141>>, -50, <<28950, 1980, 26005, 141>>, -52>>,
       <<7, 13, 8, 33, 1, <<1231, 21539, 5838, 163>>, -47, <<5733, 10337, 16683, 210>>, -55, 8, <<23428, 13939, 29840, 193>>, -56, <<16095, 4055, 1334, 165>>, -52>>,
       <<5, 21, 13, 35, 1, <<27740, 8924, 26816, 190>>, -48, <<28460, 26091, 22936, 138>>, -50, 67, <<16496, 22999, 27585, 162>>, -52, <<26313, 17046, 23284, 156>>, -52>>,
       <<16, 4, 6, 18, 1, <<21136, 1463, 331, 205>>, -50, <<15801, 28103, 1194, 244>>, -51, 76, <<22221, 4129, 10411, 179>>, -53, <<31918, 23759, 6958, 147>>, -52>>,
       <<1, 22, 22, 58, 1, <<15920, 15037, 8002, 157>>, -51, <<7068, 28392, 19057, 160>>, -49, 9, <<7658, 15781, 8667, 251>>, -55, <<23872, 11856, 30276, 149>>, -52>>,
       <<0, 17, 50, 8, 1, <<11928, 28724, 12509, 210>>, -49, <<19618, 27978, 6183, 203>>, -54, 110, <<2648, 31127, 23850, 185>>, -52, <<4233, 22325, 22840, 144>>, -52>>,
       <<19, 8, 44, 43, 1, <<4570, 19197, 25552, 196>>, -47, <<25893, 9695, 8960, 159>>, -49, 190, <<26032, 19539, 20181, 228>>, -52, <<30640, 8163, 18511, 154>>, -52>>,
       <<24, 10, 8, 49, 1, <<17111, 20424, 9322, 179>>, -48, <<10288, 20954, 6880, 209>>, -50, 177, <<31676, 1509, 12128, 176>>, -53, <<15150, 27944, 8824, 153>>, -52>>,
       <<2, 18, 22, 8, 1, <<10835, 11507, 10506, 138>>, -47, <<14652, 670, 24647, 215>>, -51, 144, <<7994, 25835, 27939, 155>>, -51, <<4483, 8788, 4646, 151>>, -52>>,
       <<14, 11, 15, 13, 1, <<17571, 18900, 2706, 212>>, -49, <<20315, 22719, 29762, 131>>, -51, 72, <<12384, 11107, 5006, 155>>, -53, <<31007, 16181, 4758, 150>>, -52>>,
       <<30, 20, 41, 28, 1, <<12284, 32354, 27675, 225>>, -47, <<31806, 9742, 1991, 129>>, -52, 63, <<9202, 223, 5888, 199>>, -50, <<6650, 2199, 13762, 155>>, -52>>,
       <<19, 14, 12, 59, 1, <<15254, 5247, 8143, 140>>, -47, <<22779, 2663, 29996, 212>>, -52, 73, <<24742, 28771, 13697, 135>>, -50, <<27218, 29926, 12426, 152>>, -52>>,
       <<4, 17, 46, 37, 1, <<29506, 21647, 5824, 250>>, -47, <<28614, 19232, 6328, 206>>, -52, 70, <<8802, 31254, 31655, 148>>, -52, <<6821, 26001, 11625, 166>>, -52>>,
       <<14, 6, 57, 40, 1, <<4076, 11701, 5574, 129>>, -47, <<7520, 27395, 2164, 172>>, -51, 158, <<23590, 26313, 14212, 240>>, -50, <<19156, 17958, 8055, 151>>, -52>>,
       <<23, 11, 3, 46, 1, <<6206, 19062, 31592, 160>>, -48, <<14264, 9082, 10731, 174>>, -54, 92, <<368, 16571, 22589, 200>>, -54, <<7226, 11834, 15444, 154>>, -52>>,
       <<29, 0, 15, 21, 1, <<31150, 19237, 8288, 175>>, -49, <<15634, 7165, 6949, 232>>, -49, 242, <<18593, 2847, 2690, 155>>, -51, <<497, 19694, 9665, 154>>, -52>>,
       <<10, 12, 8, 30, 1, <<24172, 9248, 24757, 231>>, -50, <<14858, 10959, 30401, 176>>, -50, 186, <<10283, 27023, 32739, 204>>, -51, <<27952, 5073, 28658, 152>>, -52>>,
       <<24, 2, 14, 55, 1, <<28379, 3156, 23542, 201>>, -48, <<21074, 3970, 17142, 205>>, -54, 83, <<2480, 3055, 620, 210>>, -53, <<10394, 6326, 32162, 147>>, -52>>,
       <<18, 10, 14, 5, 1, <<25973, 18336, 13926, 159>>, -47, <<3259, 10901, 19884, 241>>, -52, 26, <<12322, 20593, 16111, 190>>, -51, <<26426, 19545, 23016, 158>>, -52>>,
       <<23, 5, 13, 27, 1, <<10332, 32589, 6126, 129>>, -47, <<11482, 20276, 7676, 136>>, -49, 51, <<17351, 31961, 32079, 132>>, -50, <<28642, 27463, 9127, 143>>, -52>>,
       <<23, 17, 43, 35, 1, <<28360, 4741, 22963, 167>>, -48, <<17640, 17499, 23952, 222>>, -51, 68, <<30906, 13275, 10186, 222>>, -54, <<11366, 772, 28148, 148>>, -52>>,
       <<2, 14, 1, 56, 1, <<20622, 5992, 21487, 147>>, -48, <<22262, 7578, 25021, 196>>, -49, 27, <<1711, 31302, 32069, 135>>, -50, <<17340, 1674, 6332, 160>>, -52>>,
       <<3, 8, 36, 50, 1, <<16477, 20738, 13874, 248>>, -49, <<16637, 5045, 15038, 200>>, -51, 38, <<18150, 6767, 15781, 254>>, -51, <<31256, 5966, 2623, 157>>, -52>>,
       <<16, 8, 18, 29, -1, <<16358, 21666, 23550, 142>>, -48, <<18758, 11307, 17908, 228>>, -50, 180, <<1992, 29913, 31911, 137>>, -49, <<25341, 22767, 29650, 163>>, -52>>,
       <<5, 5, 40, 35, 1, <<9724, 18863, 1592, 148>>, -48, <<10281, 28365, 28423, 139>>, -53, 244, <<6824, 9017, 5514, 140>>, -49, <<27612, 23641, 2120, 147>>, -52>>,
       <<21, 23, 28, 8, 1, <<14208, 20183, 16160, 233>>, -47, <<22895, 18326, 16629, 134>>, -51, 43, <<9024, 21793, 10982, 233>>, -55, <<1146, 30115, 12283, 160>>, -52>>,
       <<27, 2, 53, 54, 1, <<18144, 1652, 4434, 189>>, -47, <<1302, 3398, 5493, 230>>, -53, 217, <<5403, 10011, 10354, 164>>, -50, <<13029, 24785, 32207, 163>>, -52>>,
       <<26, 4, 37, 29, 1, <<4090, 10145, 13246, 151>>, -47, <<403, 32170, 19761, 227>>, -53, 4, <<8812, 5349, 26292, 222>>, -52, <<10826, 11318, 4265, 162>>, -52>>,
       <<26, 16, 35, 55, 1, <<4990, 9012, 25093, 247>>, -48, <<11614, 10137, 24566, 229>>, -55, 240, <<2768, 23349, 24072, 225>>, -52, <<30135, 885, 11832, 147>>, -52>>,
       <<12, 21, 55, 30, 1, <<8883, 23295, 19265, 161>>, -48, <<10374, 12793, 10458, 140>>, -51, 226, <<606, 18540, 22470, 145>>, -56, <<9525, 3496, 26624, 151>>, -52>>,
       <<27, 12, 0, 0, -1, <<6140, 18440, 7100, 177>>, -49, <<19189, 13231, 993, 149>>, -50, 38, <<13042, 12877, 5252, 169>>, -55, <<7525, 16769, 13001, 144>>, -52>>,
       <<29, 16, 47, 7, 1, <<6099, 23135, 3503, 209>>, -48, <<10079, 25010, 15071, 133>>, -51, 216, <<16142, 19480, 361, 204>>, -55, <<16846, 14778, 8358, 157>>, -52>>,
       <<18, 10, 28, 49, 1, <<8508, 21376, 11789, 137>>, -47, <<11281, 20115, 6282, 163>>, -50, 145, <<24912, 648, 31322, 209>>, -50, <<17750, 5339, 27492, 141>>, -52>>,
       <<24, 17, 3, 16, -1, <<20880, 4333, 24194, 228>>, -51, <<24292, 14718, 3476, 144>>, -51, 230, <<19911, 19995, 23357, 172>>, -49, <<30310, 13650, 10969, 156>>, -52>>,
       <<8, 21, 11, 16, 1, <<24329, 18461, 29621, 230>>, -48, <<10052, 3329, 23425, 149>>, -50, 61, <<4413, 19752, 5478, 161>>, -50, <<30896, 14379, 26754, 159>>, -52>>,
       <<11, 13, 30, 31, 1, <<27864, 23554, 19319, 159>>, -50, <<26916, 2518, 6541, 148>>, -54, 46, <<17363, 12211, 28341, 156>>, -55, <<4824, 19291, 22072, 147>>, -52>>,
       <<15, 19, 35, 53, 1, <<10767, 13657, 18965, 227>>, -48, <<23564, 7315, 12969, 189>>, -50, 17, <<2393, 6529, 1363, 233>>, -52, <<4884, 15703, 27921, 152>>, -52>>,
       <<4, 13, 48, 34, 1, <<4430, 9033, 31096, 142>>, -46, <<18012, 1283, 3250, 236>>, -53, 228, <<15586, 30132, 11780, 201>>, -49, <<12582, 24108, 387, 165>>, -52>>,
       <<23, 0, 43, 35, 1, <<14454, 1613, 622, 169>>, -48, <<19646, 22630, 7207, 158>>, -51, 168, <<10811, 15680, 18714, 128>>, -53, <<6743, 10768, 23084, 162>>, -52>>,
       <<26, 1, 41, 43, 1, <<10551, 15642, 20807, 242>>, -49, <<12381, 22724, 24706, 226>>, -52, 195, <<5692, 25466, 30930, 197>>, -52, <<31700, 8331, 28624, 155>>, -52>>,
       <<7, 21, 17, 22, -1, <<17696, 22678, 3060, 164>>, -53, <<31132, 28300, 23302, 138>>, -50, 242, <<27161, 2824, 12308, 255>>, -53, <<1912, 3067, 23221, 163>>, -52>>,
       <<6, 15, 45, 46, 1, <<9906, 3877, 30230, 197>>, -47, <<21108, 2091, 31660, 133>>, -49, 123, <<27776, 7192, 21082, 224>>, -51, <<7702, 5338, 16896, 148>>, -52>>,
       <<21, 21, 4, 42, 1, <<31336, 12746, 5757, 249>>, -48, <<17366, 20692, 13325, 156>>, -52, 164, <<2298, 13513, 12966, 169>>, -49, <<18931, 1038, 9775, 145>>, -52>>,
       <<22, 12, 11, 0, 1, <<14001, 22379, 28701, 192>>, -48, <<5480, 6688, 28420, 250>>, -51, 67, <<1971, 9000, 31908, 137>>, -54, <<26504, 31255, 2668, 159>>, -52>>,
       <<25, 20, 51, 50, 1, <<13536, 12092, 17963, 178>>, -47, <<6967, 28196, 9755, 129>>, -50, 79, <<13207, 2913, 9293, 142>>, -52, <<20853, 4482, 25939, 157>>, -52>>,
       <<2, 20, 57, 30, 1, <<28276, 4990, 23775, 245>>, -48, <<2324, 27483, 5712, 235>>, -51, 89, <<25818, 27037, 11050, 209>>, -54, <<25821, 31902, 5410, 157>>, -52>>,
       <<26, 0, 21, 47, 1, <<15968, 17908, 11174, 242>>, -48, <<10591, 10838, 30528, 196>>, -50, 233, <<4910, 18969, 14667, 141>>, -53, <<13528, 1457, 4571, 162>>, -52>>,
       <<25, 2, 37, 23, 1, <<29102, 14562, 32150, 180>>, -49, <<23520, 9116, 27696, 219>>, -52, 244, <<20162, 32000, 12105, 148>>, -52, <<25965, 24059, 10000, 166>>, -52>>,
       <<26, 13, 43, 15, 1, <<14801, 31359, 8381, 199>>, -48, <<30787, 28839, 13919, 130>>, -50, 55, <<13986, 28104, 16689, 163>>, -50, <<12272, 11122, 25628, 141>>, -52>>,
       <<13, 0, 12, 51, 1, <<26756, 30734, 25031, 181>>, -48, <<8228, 2833, 13320, 134>>, -51, 87, <<2472, 31121, 16319, 198>>, -52, <<31314, 24550, 5691, 158>>, -52>>,
       <<2, 6, 23, 21, 1, <<24408, 18317, 19943, 163>>, -47, <<2340, 18179, 4730, 189>>, -50, 151, <<24937, 32560, 19804, 250>>, -55, <<17740, 18125, 21558, 142>>, -52>>,
       <<7, 14, 51, 3, 1, <<176, 31286, 18610, 219>>, -48, <<31780, 6791, 2118, 234>>, -49, 260, <<24212, 27957, 1139, 152>>, -52, <<25909, 9535, 10854, 156>>, -52>>,
       <<20, 12, 54, 55, 1, <<28195, 13885, 32708, 144>>, -49, <<27470, 2611, 9191, 153>>, -53, 87, <<23882, 19737, 30427, 164>>, -50, <<9509, 22845, 3350, 148>>, -52>>,
       <<2, 18, 25, 8, 1, <<27299, 15520, 32004, 238>>, -48, <<8023, 12975, 32658, 213>>, -49, 226, <<19792, 22258, 9798, 152>>, -51, <<11573, 23844, 6434, 157>>, -52>>,
       <<18, 14, 21, 10, 1, <<24166, 3418, 12963, 213>>, -48, <<22592, 5495, 29862, 194>>, -51, 85, <<12250, 17376, 9871, 167>>, -53, <<2395, 7046, 31608, 161>>, -52>>,
       <<0, 1, 18, 45, 1, <<16649, 17624, 22912, 191>>, -47, <<21644, 11748, 3684, 130>>, -48, 17, <<18198, 10773, 19414, 223>>, -53, <<21196, 2171, 1274, 162>>, -52>>,
       <<25, 23, 35, 7, 1, <<29800, 22703, 12814, 139>>, -48, <<16130, 28425, 2650, 242>>, -51, 121, <<27370, 4871, 25260, 203>>, -53, <<26597, 10610, 15888, 155>>, -52>>,
       <<4, 6, 32, 30, 1, <<12678, 18270, 17786, 158>>, -47, <<8085, 9005, 30452, 201>>, -49, 32, <<24739, 17636, 31569, 164>>, -50, <<28294, 8620, 25069, 141>>, -52>>,
       <<13, 0, 9, 15, 1, <<9213, 25434, 2970, 200>>, -48, <<8291, 22684, 26971, 171>>, -57, 190, <<31185, 7432, 30301, 166>>, -51, <<5367, 3991, 2894, 159>>, -52>>,
       <<15, 18, 20, 21, 1, <<27414, 18095, 15801, 219>>, -47, <<18483, 13061, 29751, 172>>, -51, 125, <<14160, 29331, 32055, 179>>, -51, <<4094, 1268, 5748, 152>>, -52>>,
       <<15, 17, 48, 17, 1, <<27335, 25874, 4902, 247>>, -48, <<21939, 28618, 12727, 174>>, -49, 136, <<4064, 28206, 28593, 254>>, -51, <<13448, 24098, 19566, 148>>, -52>>,
       <<30, 0, 46, 17, 1, <<62, 708, 4551, 228>>, -48, <<5916, 17141, 7991, 236>>, -50, 38, <<4135, 22199, 4491, 177>>, -51, <<7427, 15806, 12224, 148>>, -52>>,
       <<21, 15, 51, 28, 1, <<30581, 12013, 18732, 227>>, -48, <<14818, 19289, 10774, 247>>, -52, 145, <<12120, 31350, 10073, 170>>, -49, <<19910, 21747, 447, 152>>, -52>>,
       <<8, 2, 34, 32, 1, <<31219, 17007, 23387, 230>>, -47, <<27813, 31345, 11631, 176>>, -49, 210, <<31784, 13752, 11190, 133>>, -50, <<32338, 30113, 10101, 153>>, -52>>,
       <<2, 4, 13, 2, 1, <<22407, 8886, 10486, 223>>, -48, <<14658, 32038, 18558, 229>>, -55, 94, <<21379, 11311, 15012, 187>>, -51, <<15565, 5848, 7934, 142>>, -52>>,
       <<15, 8, 33, 54, 1, <<7665, 24157, 9407, 226>>, -49, <<30083, 26940, 31055, 186>>, -50, 215, <<32588, 26006, 23511, 253>>, -52, <<19735, 19167, 11379, 158>>, -52>>,
       <<26, 21, 42, 12, 1, <<9427, 16963, 17189, 138>>, -48, <<32119, 19666, 21836, 133>>, -49, 193, <<17076, 25460, 9601, 179>>, -54, <<9436, 507, 8682, 159>>, -52>>,
       <<22, 23, 4, 4, -1, <<17848, 28375, 26319, 137>>, -49, <<30628, 14712, 31435, 207>>, -52, 208, <<1016, 32372, 19986, 226>>, -51, <<27050, 32033, 3170, 163>>, -52>>,
       <<12, 14, 45, 7, 1, <<10606, 32324, 22160, 200>>, -48, <<22017, 23958, 3966, 240>>, -51, 154, <<17864, 30694, 26925, 132>>, -50, <<3842, 13986, 16255, 165>>, -52>>,
       <<2, 2, 6, 35, 1, <<25724, 7228, 5449, 156>>, -48, <<13234, 23211, 24417, 251>>, -54, 220, <<15128, 27120, 17762, 205>>, -50, <<22663, 5311, 23243, 155>>, -52>>,
       <<12, 15, 35, 32, 1, <<32547, 17906, 9111, 243>>, -47, <<14103, 27759, 26550, 207>>, -52, 161, <<9375, 4777, 12720, 133>>, -50, <<31776, 23461, 9988, 157>>, -52>>,
       <<19, 18, 46, 53, 1, <<8832, 9191, 1016, 227>>, -48, <<16895, 20679, 0, 147>>, -49, 53, <<11443, 26166, 14647, 175>>, -52, <<20819, 15007, 28475, 146>>, -52>>,
       <<4, 22, 26, 5, 1, <<8650, 6481, 24424, 194>>, -47, <<4416, 14902, 13107, 204>>, -49, 189, <<24781, 20636, 7176, 128>>, -49, <<27968, 14972, 30701, 140>>, -52>>,
       <<7, 5, 47, 54, 1, <<4913, 24375, 6513, 142>>, -47, <<19739, 2753, 5038, 250>>, -51, 264, <<7422, 1690, 22170, 233>>, -54, <<28879, 22606, 26876, 140>>, -52>>,
       <<5, 20, 20, 25, 1, <<3685, 29154, 10524, 185>>, -48, <<22350, 16730, 25267, 149>>, -52, 28, <<21776, 28111, 26402, 251>>, -55, <<22141, 30243, 8392, 156>>, -52>>,
       <<23, 18, 31, 49, 1, <<7116, 29860, 27592, 236>>, -50, <<29286, 14244, 17788, 216>>, -50, 66, <<5236, 5983, 20757, 226>>, -52, <<14841, 14157, 22055, 161>>, -52>>,
       <<9, 13, 21, 24, 1, <<17172, 18774, 19164, 242>>, -48, <<21017, 26254, 25369, 170>>, -49, 70, <<20405, 29843, 29688, 179>>, -57, <<5393, 30533, 28583, 142>>, -52>>,
       <<28, 6, 16, 49, 1, <<14377, 32659, 4023, 204>>, -49, <<3538, 27348, 1913, 139>>, -53, 87, <<13878, 22821, 10782, 187>>, -50, <<27688, 18088, 14510, 148>>, -52>>,
       <<9, 18, 36, 6, 1, <<1712, 28586, 4835, 203>>, -51, <<23551, 12253, 18053, 221>>, -50, 173, <<9386, 5641, 16074, 129>>, -49, <<3699, 17619, 32482, 156>>, -52>>,
       <<14, 7, 6, 45, 1, <<753, 24995, 10912, 164>>, -47, <<29034, 23604, 32695, 221>>, -51, 21, <<18427, 24005, 1654, 191>>, -52, <<16935, 21958, 17966, 147>>, -52>>,
       <<26, 19, 40, 34, 1, <<32484, 23906, 11311, 163>>, -48, <<25838, 18361, 11656, 203>>, -53, 254, <<4722, 5727, 27042, 154>>, -50, <<13254, 32560, 13730, 152>>, -52>>,
       <<4, 4, 30, 27, 1, <<6120, 2051, 2411, 205>>, -48, <<9076, 7107, 27477, 148>>, -49, 231, <<25229, 9184, 8575, 236>>, -52, <<15261, 19766, 2629, 150>>, -52>>,
       <<6, 10, 42, 31, 1, <<13184, 3512, 30368, 213>>, -55, <<7305, 9269, 437, 245>>, -49, 226, <<12146, 3768, 6262, 241>>, -51, <<22796, 10127, 1715, 155>>, -52>>,
       <<10, 11, 56, 3, 1, <<8320, 6236, 9826, 155>>, -50, <<21344, 2903, 11807, 167>>, -49, 191, <<21093, 28011, 17765, 233>>, -52, <<23532, 24556, 10023, 156>>, -52>>,
       <<13, 8, 34, 57, 1, <<23882, 1190, 17300, 152>>, -48, <<11006, 29949, 16033, 209>>, -50, 43, <<6282, 28725, 13547, 177>>, -50, <<20542, 8157, 21262, 146>>, -52>>,
       <<12, 3, 40, 29, 1, <<27024, 27731, 20735, 186>>, -50, <<2724, 22598, 29524, 144>>, -49, 235, <<16525, 27068, 30039, 209>>, -52, <<24064, 28550, 10137, 151>>, -52>>,
       <<10, 22, 57, 30, 1, <<14122, 26843, 23484, 144>>, -47, <<27294, 4143, 10427, 141>>, -52, 184, <<26722, 22685, 1736, 146>>, -52, <<8689, 11506, 23347, 165>>, -52>>,
       <<30, 8, 6, 49, 1, <<26306, 29604, 16864, 237>>, -47, <<16161, 1813, 23199, 169>>, -50, 4, <<12823, 12186, 17341, 206>>, -52, <<27551, 13200, 29975, 159>>, -52>>,
       <<2, 12, 53, 34, 1, <<30614, 22843, 1563, 212>>, -47, <<25963, 9701, 29512, 150>>, -52, 107, <<23369, 3030, 5916, 146>>, -52, <<32264, 31860, 1440, 151>>, -52>>,
       <<22, 2, 51, 44, 1, <<2446, 29633, 31390, 171>>, -47, <<9166, 24999, 29481, 195>>, -50, 21, <<12206, 28396, 6645, 165>>, -51, <<16041, 15110, 15118, 146>>, -52>>,
       <<11, 0, 50, 28, 1, <<12584, 2886, 4154, 196>>, -48, <<22224, 16542, 25328, 178>>, -53, 215, <<19969, 14985, 3876, 130>>, -51, <<14707, 21231, 11293, 163>>, -52>>,
       <<0, 6, 0, 48, 1, <<22546, 16433, 16359, 147>>, -47, <<2688, 20373, 15331, 165>>, -53, 235, <<15419, 29642, 22333, 175>>, -54, <<14167, 25131, 31714, 151>>, -52>>,
       <<22, 18, 16, 35, 1, <<19236, 29178, 16256, 131>>, -49, <<30163, 31811, 19182, 160>>, -50, 155, <<9308, 4372, 4837, 142>>, -50, <<1524, 9645, 4002, 145>>, -52>>,
       <<12, 23, 14, 5, 1, <<28536, 17003, 552, 164>>, -49, <<8956, 10067, 17371, 138>>, -51, 207, <<29535, 21609, 1778, 159>>, -51, <<12383, 4485, 12591, 157>>, -52>>,
       <<23, 11, 44, 29, 1, <<4341, 32158, 8447, 183>>, -48, <<8132, 20857, 19673, 192>>, -48, 157, <<2512, 15756, 32713, 143>>, -49, <<31957, 31964, 13746, 142>>, -52>>,
       <<2, 5, 15, 1, 1, <<31436, 10358, 26541, 147>>, -47, <<3168, 9144, 9174, 141>>, -50, 24, <<3856, 17411, 19090, 192>>, -49, <<4361, 30228, 25761, 163>>, -52>>,
       <<29, 18, 25, 36, 1, <<14859, 20441, 3738, 214>>, -49, <<16880, 13769, 5638, 162>>, -48, 115, <<16550, 10865, 26612, 234>>, -57, <<10734, 13827, 23555, 141>>, -52>>,
       <<8, 20, 40, 41, 1, <<25011, 15348, 28284, 149>>, -47, <<8839, 22156, 30345, 152>>, -50, 91, <<7868, 22203, 11068, 142>>, -52, <<24706, 28217, 5240, 153>>, -52>>,
       <<28, 21, 7, 28, 1, <<115, 6805, 26192, 249>>, -49, <<3413, 5225, 18664, 188>>, -53, 149, <<26360, 21408, 3033, 180>>, -51, <<23642, 4324, 4335, 155>>, -52>>,
       <<18, 3, 22, 56, 1, <<6971, 26179, 975, 162>>, -47, <<24980, 28881, 15614, 231>>, -52, 139, <<12036, 29920, 13362, 226>>, -49, <<26972, 13018, 13434, 143>>, -52>>,
       <<19, 12, 1, 23, 1, <<11684, 8750, 2999, 154>>, -47, <<26308, 25085, 11169, 179>>, -50, 130, <<7842, 13167, 9648, 228>>, -52, <<22238, 4177, 3255, 157>>, -52>>,
       <<22, 7, 1, 5, 1, <<32252, 28948, 24608, 203>>, -49, <<31457, 26461, 20128, 179>>, -49, 202, <<23556, 16374, 16530, 157>>, -52, <<8893, 19335, 28914, 155>>, -52>>,
       <<1, 4, 19, 7, 1, <<16495, 11172, 8230, 232>>, -47, <<21990, 2680, 30156, 137>>, -49, 243, <<13084, 13205, 24670, 177>>, -54, <<15912, 6113, 4464, 161>>, -52>>,
       <<14, 5, 9, 26, 1, <<12710, 19509, 5070, 148>>, -48, <<7417, 2507, 30560, 135>>, -53, 95, <<32344, 4395, 31473, 244>>, -52, <<12978, 10268, 42, 159>>, -52>>,
       <<24, 11, 12, 27, 1, <<23952, 5919, 14923, 208>>, -47, <<841, 16956, 6728, 162>>, -51, 136, <<21846, 26865, 21038, 197>>, -51, <<476, 26737, 6256, 149>>, -52>>,
       <<3, 14, 58, 20, -1, <<23952, 13659, 574, 197>>, -50, <<21606, 15839, 26156, 190>>, -51, 250, <<24914, 30043, 25511, 205>>, -52, <<31683, 11482, 18275, 159>>, -52>>,
       <<21, 1, 59, 14, 1, <<32434, 11211, 25137, 171>>, -48, <<5198, 13670, 18732, 243>>, -51, 42, <<9882, 16557, 6568, 145>>, -49, <<8184, 16208, 1753, 150>>, -52>>,
       <<8, 15, 35, 47, -1, <<5300, 548, 29230, 191>>, -49, <<8922, 21146, 31813, 151>>, -49, 68, <<32734, 16944, 19627, 190>>, -50, <<5709, 14383, 4882, 152>>, -52>>,
       <<10, 23, 28, 2, 1, <<7388, 21105, 17603, 153>>, -47, <<22087, 14436, 30362, 221>>, -54, 125, <<19552, 24151, 5515, 223>>, -52, <<29531, 31589, 25223, 155>>, -52>>,
       <<13, 7, 42, 3, 1, <<27984, 22078, 16417, 156>>, -50, <<17634, 31618, 21034, 157>>, -50, 14, <<21241, 21876, 7462, 148>>, -50, <<28071, 13447, 8596, 141>>, -52>>,
       <<1, 6, 8, 59, 1, <<3567, 17228, 21860, 161>>, -48, <<17886, 3982, 8780, 140>>, -49, 112, <<26324, 17097, 24848, 192>>, -54, <<23124, 26834, 18562, 157>>, -52>>,
       <<12, 3, 50, 33, 1, <<6323, 7684, 9403, 131>>, -47, <<9353, 9488, 15963, 141>>, -48, 197, <<6534, 6749, 21291, 219>>, -51, <<26417, 882, 13976, 142>>, -52>>,
       <<21, 9, 15, 41, 1, <<9634, 5116, 7148, 180>>, -47, <<6572, 29833, 27390, 171>>, -51, 61, <<21816, 11245, 26249, 153>>, -51, <<11375, 31953, 30874, 158>>, -52>>,
       <<26, 14, 24, 58, 1, <<6813, 30386, 5092, 178>>, -47, <<27048, 32140, 11294, 139>>, -53, 48, <<28793, 1883, 19077, 153>>, -53, <<11848, 31717, 897, 159>>, -52>>,
       <<15, 20, 18, 33, 1, <<31599, 25473, 17020, 216>>, -48, <<16878, 5018, 11615, 216>>, -51, 81, <<6364, 7206, 31960, 146>>, -54, <<23089, 13322, 9806, 141>>, -52>>,
       <<28, 0, 3, 27, 1, <<15404, 3108, 11953, 192>>, -48, <<19525, 28950, 28081, 226>>, -52, 134, <<17434, 7026, 24378, 206>>, -53, <<8772, 16616, 16422, 159>>, -52>>,
       <<22, 10, 18, 28, 1, <<9202, 21486, 28788, 184>>, -47, <<22576, 4796, 30454, 218>>, -48, 120, <<2329, 30177, 29917, 175>>, -53, <<10775, 12599, 12168, 149>>, -52>>,
       <<5, 16, 49, 36, 1, <<14937, 14668, 29338, 162>>, -48, <<2518, 2411, 7003, 138>>, -51, 200, <<24409, 15595, 21654, 167>>, -51, <<344, 15683, 14365, 158>>, -52>>,
       <<26, 2, 32, 17, 1, <<10314, 30337, 21980, 147>>, -48, <<31708, 22387, 15972, 150>>, -53, 202, <<24814, 28708, 17146, 141>>, -50, <<20201, 12723, 30864, 151>>, -52>>,
       <<6, 9, 19, 6, -1, <<31024, 24521, 5450, 194>>, -50, <<17532, 3289, 878, 226>>, -51, 112, <<31488, 20891, 12033, 144>>, -52, <<282, 21448, 11625, 148>>, -52>>,
       <<21, 1, 6, 44, 1, <<29732, 3175, 19663, 159>>, -47, <<25438, 21525, 15158, 182>>, -49, 227, <<25231, 13082, 3284, 171>>, -52, <<17917, 1589, 673, 144>>, -52>>,
       <<14, 23, 20, 6, 1, <<4304, 14498, 8918, 248>>, -48, <<24283, 27120, 15882, 130>>, -53, 59, <<24301, 16343, 27232, 164>>, -54, <<21771, 20101, 1910, 142>>, -52>>,
       <<23, 23, 1, 12, 1, <<15261, 13169, 8511, 179>>, -47, <<27074, 15739, 6920, 193>>, -51, 197, <<25350, 595, 6927, 150>>, -50, <<26150, 22318, 11696, 161>>, -52>>,
       <<3, 0, 25, 47, 1, <<12980, 4192, 3768, 176>>, -47, <<5446, 19155, 2814, 229>>, -54, 159, <<11, 25554, 12017, 136>>, -50, <<3760, 1031, 11890, 141>>, -52>>,
       <<6, 11, 19, 36, 1, <<25004, 25952, 15884, 129>>, -47, <<2466, 30143, 8906, 151>>, -50, 182, <<13984, 7966, 15842, 175>>, -54, <<19471, 19278, 19101, 142>>, -52>>,
       <<15, 9, 18, 55, -1, <<25240, 5252, 5886, 183>>, -51, <<10472, 19224, 7566, 137>>, -55, 265, <<23134, 25671, 17151, 198>>, -50, <<5329, 24537, 7604, 149>>, -52>>,
       <<11, 9, 12, 11, 1, <<26728, 23066, 839, 243>>, -51, <<25681, 4404, 17319, 228>>, -51, 20, <<334, 24354, 11682, 147>>, -50, <<25596, 10278, 6174, 143>>, -52>>,
       <<25, 2, 39, 53, 1, <<25354, 1051, 14353, 235>>, -49, <<16358, 22184, 10861, 197>>, -50, 47, <<10546, 24100, 30268, 252>>, -56, <<30133, 31490, 31099, 145>>, -52>>,
       <<30, 18, 2, 22, 1, <<5552, 7476, 7140, 149>>, -47, <<27450, 19979, 8685, 207>>, -51, 82, <<11647, 19629, 29183, 181>>, -56, <<3169, 14120, 9522, 156>>, -52>>,
       <<22, 11, 26, 51, 1, <<18176, 22274, 22532, 247>>, -48, <<26955, 14474, 22591, 147>>, -52, 94, <<11540, 17805, 2254, 224>>, -50, <<28211, 18821, 30287, 162>>, -52>>,
       <<5, 4, 13, 52, 1, <<11506, 18070, 20009, 220>>, -49, <<30758, 17023, 29263, 180>>, -51, 178, <<6106, 19029, 12010, 238>>, -52, <<456, 23382, 29121, 164>>, -52>>,
       <<24, 10, 47, 43, 1, <<29684, 17250, 7301, 131>>, -47, <<10958, 11335, 23863, 143>>, -49, 74, <<5759, 25640, 1217, 138>>, -50, <<31912, 7232, 4406, 162>>, -52>>,
       <<28, 5, 58, 24, 1, <<29285, 40, 12973, 191>>, -48, <<8458, 8663, 24587, 162>>, -47, 24, <<31250, 13671, 30472, 231>>, -52, <<11845, 27587, 1254, 154>>, -52>>,
       <<27, 16, 13, 6, -1, <<31640, 32166, 14399, 176>>, -50, <<13600, 553, 23851, 217>>, -50, 99, <<50, 20947, 20851, 188>>, -52, <<19681, 16645, 5618, 145>>, -52>>,
       <<7, 18, 17, 12, 1, <<2560, 1571, 23605, 203>>, -50, <<31324, 9762, 17924, 239>>, -53, 140, <<20982, 5284, 3710, 229>>, -53, <<6072, 13654, 12542, 153>>, -52>>,
       <<24, 11, 50, 45, 1, <<26153, 7140, 2563, 211>>, -49, <<24493, 6114, 32616, 255>>, -49, 228, <<2158, 10569, 30827, 204>>, -55, <<31998, 30635, 19271, 155>>, -52>>,
       <<15, 4, 52, 53, 1, <<26471, 30612, 13209, 224>>, -48, <<24240, 19386, 16864, 214>>, -49, 45, <<7104, 21488, 23330, 232>>, -52, <<1293, 22907, 5169, 146>>, -52>>,
       <<22, 11, 37, 58, 1, <<14934, 20392, 27764, 243>>, -48, <<12106, 1899, 32265, 137>>, -51, 215, <<28735, 23291, 4124, 220>>, -54, <<19856, 8578, 908, 142>>, -52>>,
       <<15, 8, 2, 31, 1, <<30643, 9703, 9848, 195>>, -48, <<17021, 3010, 23499, 135>>, -50, 142, <<12767, 26959, 26129, 198>>, -53, <<956, 3977, 3115, 141>>, -52>>,
       <<18, 4, 12, 31, 1, <<22457, 23545, 16242, 197>>, -48, <<4638, 32260, 9137, 174>>, -51, 228, <<19601, 8219, 25161, 249>>, -51, <<25299, 30804, 30571, 157>>, -52>>,
       <<12, 8, 27, 24, -1, <<9376, 5427, 32120, 147>>, -52, <<3098, 26986, 24953, 192>>, -52, 44, <<11730, 22348, 27999, 159>>, -51, <<7613, 23820, 25624, 162>>, -52>>,
       <<6, 14, 23, 48, 1, <<1680, 26139, 19317, 134>>, -48, <<14123, 14240, 381, 232>>, -49, 56, <<21198, 28051, 22090, 197>>, -51, <<10580, 15942, 18962, 150>>, -52>>,
       <<22, 12, 30, 39, 1, <<24067, 29759, 174, 209>>, -47, <<19626, 6440, 24607, 201>>, -52, 187, <<25102, 30835, 22006, 223>>, -53, <<21362, 21157, 32161, 151>>, -52>>,
       <<5, 22, 32, 43, 1, <<17344, 32690, 10939, 146>>, -48, <<21356, 12784, 6658, 240>>, -53, 232, <<5910, 6030, 1409, 217>>, -51, <<4553, 8325, 5828, 154>>, -52>>,
       <<28, 21, 44, 12, -1, <<23328, 29130, 24275, 239>>, -53, <<20886, 11771, 24653, 149>>, -53, 24, <<20229, 30468, 4062, 146>>, -52, <<7482, 28419, 23294, 141>>, -52>>,
       <<8, 13, 57, 11, 1, <<1857, 27540, 12741, 151>>, -48, <<16563, 3418, 20666, 129>>, -51, 161, <<4530, 4536, 5288, 212>>, -52, <<2178, 12003, 23550, 148>>, -52>>,
       <<28, 5, 28, 16, 1, <<86, 25458, 1363, 142>>, -47, <<17948, 2503, 2845, 145>>, -50, 125, <<13978, 22881, 16041, 202>>, -51, <<18125, 25775, 1395, 159>>, -52>>,
       <<15, 20, 17, 34, 1, <<8122, 18688, 15251, 171>>, -47, <<9319, 9289, 21710, 192>>, -51, 62, <<15828, 5512, 31113, 130>>, -53, <<28700, 23778, 23461, 151>>, -52>>,
       <<8, 3, 20, 30, 1, <<5939, 15003, 12372, 182>>, -48, <<1422, 2286, 20367, 155>>, -50, 25, <<21934, 30515, 19641, 223>>, -57, <<8942, 25683, 1979, 155>>, -52>>,
       <<14, 13, 3, 52, 1, <<11089, 1685, 29622, 162>>, -47, <<17933, 13723, 1479, 141>>, -50, 197, <<27570, 27813, 21468, 206>>, -51, <<22131, 68, 32447, 150>>, -52>>,
       <<13, 22, 11, 28, 1, <<6717, 5593, 8911, 190>>, -48, <<15712, 18573, 24460, 128>>, -53, 143, <<5220, 622, 22798, 204>>, -52, <<4318, 19864, 6024, 151>>, -52>>,
       <<30, 3, 26, 22, 1, <<12163, 11844, 7584, 154>>, -48, <<8279, 32266, 5512, 182>>, -49, 181, <<14238, 18100, 1334, 205>>, -50, <<5029, 12143, 7313, 153>>, -52>>,
       <<4, 4, 10, 40, 1, <<988, 14834, 19462, 245>>, -48, <<17511, 13378, 58, 244>>, -49, 41, <<14606, 14845, 6716, 240>>, -53, <<28180, 11263, 27630, 162>>, -52>>,
       <<17, 11, 4, 8, 1, <<27020, 22857, 31867, 188>>, -48, <<8289, 27462, 1753, 234>>, -50, 100, <<8715, 6837, 9582, 231>>, -57, <<17117, 25491, 13068, 161>>, -52>>,
       <<8, 4, 14, 46, 1, <<17231, 5397, 32124, 178>>, -48, <<31228, 7874, 6089, 237>>, -52, 259, <<22476, 21372, 364, 198>>, -52, <<7762, 4230, 833, 164>>, -52>>,
       <<4, 0, 8, 16, 1, <<26477, 11739, 4430, 228>>, -47, <<25969, 21389, 13461, 173>>, -51, 30, <<11350, 19683, 10633, 201>>, -52, <<22467, 22134, 13077, 158>>, -52>>,
       <<19, 8, 46, 22, 1, <<23286, 22131, 27659, 233>>, -48, <<19412, 17938, 17813, 193>>, -49, 129, <<16684, 26421, 8722, 172>>, -54, <<6241, 19127, 25105, 146>>, -52>>,
       <<26, 14, 45, 52, 1, <<4189, 357, 3487, 228>>, -48, <<11514, 32276, 28992, 161>>, -50, 60, <<5632, 12581, 12852, 154>>, -50, <<26418, 7139, 21096, 149>>, -52>>,
       <<21, 14, 41, 21, 1, <<2482, 8870, 24977, 204>>, -48, <<21797, 26923, 32695, 179>>, -49, 166, <<25985, 25089, 5954, 184>>, -49, <<28792, 18392, 17578, 161>>, -52>>,
       <<26, 14, 10, 46, 1, <<27552, 25079, 18569, 180>>, -50, <<680, 19055, 9273, 173>>, -51, 132, <<26827, 25408, 26491, 154>>, -51, <<6080, 32655, 16639, 153>>, -52>>,
       <<0, 11, 20, 10, 1, <<15448, 30831, 29024, 151>>, -51, <<17578, 12847, 24246, 233>>, -50, 186, <<30572, 22691, 29858, 132>>, -51, <<28695, 14616, 21945, 143>>, -52>>,
       <<19, 22, 25, 15, 1, <<10026, 31630, 17822, 197>>, -48, <<13349, 22947, 21301, 145>>, -48, 187, <<23849, 24283, 3304, 155>>, -51, <<15666, 3279, 3484, 155>>, -52>>,
       <<22, 17, 45, 18, 1, <<2742, 29593, 14506, 137>>, -47, <<8333, 15706, 8356, 235>>, -49, 175, <<30030, 29451, 18780, 151>>, -51, <<16482, 23359, 22186, 141>>, -52>>,
       <<18, 16, 27, 18, 1, <<17402, 19697, 26393, 141>>, -48, <<20926, 31120, 3692, 149>>, -50, 28, <<8183, 23063, 24887, 200>>, -51, <<8525, 5575, 23641, 148>>, -52>>,
       <<9, 7, 32, 11, 1, <<7675, 26255, 12522, 255>>, -48, <<11912, 10927, 4219, 245>>, -57, 156, <<13539, 20479, 746, 146>>, -58, <<26080, 606, 14115, 150>>, -52>>,
       <<11, 2, 16, 27, 1, <<19518, 16836, 31679, 174>>, -47, <<18819, 24824, 16347, 245>>, -50, 214, <<12364, 30854, 25869, 134>>, -51, <<27995, 10416, 27776, 159>>, -52>>,
       <<7, 4, 33, 43, 1, <<20040, 29060, 17033, 187>>, -51, <<18316, 28553, 24291, 218>>, -52, 250, <<6360, 5050, 18498, 213>>, -52, <<25419, 25363, 18397, 163>>, -52>>,
       <<28, 4, 47, 24, 1, <<22416, 17488, 4206, 132>>, -47, <<2578, 13239, 1336, 193>>, -50, 225, <<28923, 17041, 11575, 171>>, -50, <<22954, 5202, 24864, 156>>, -52>>,
       <<25, 10, 12, 26, 1, <<24698, 12148, 29753, 156>>, -47, <<16164, 30018, 19531, 217>>, -50, 256, <<18318, 31676, 19756, 251>>, -52, <<5912, 7389, 8804, 152>>, -52>>,
       <<14, 2, 22, 45, 1, <<6384, 26309, 476, 248>>, -49, <<27203, 2850, 18876, 232>>, -51, 67, <<13220, 31874, 19320, 163>>, -54, <<25388, 23090, 13386, 156>>, -52>>,
       <<13, 21, 9, 2, 1, <<21029, 25973, 12739, 188>>, -48, <<6499, 31861, 22441, 167>>, -52, 120, <<14500, 14111, 30493, 180>>, -53, <<15280, 28208, 12845, 153>>, -52>>,
       <<27, 19, 25, 42, 1, <<30426, 30502, 10732, 134>>, -47, <<32692, 5541, 3766, 174>>, -53, 46, <<86, 22329, 25850, 225>>, -53, <<1424, 9726, 17665, 147>>, -52>>,
       <<22, 5, 52, 15, 1, <<30038, 23028, 24768, 135>>, -47, <<7876, 22294, 16891, 145>>, -48, 73, <<20743, 17892, 9699, 142>>, -50, <<17523, 32225, 15650, 149>>, -52>>,
       <<25, 20, 44, 28, 1, <<5596, 24611, 25601, 138>>, -49, <<15438, 14813, 4675, 219>>, -51, 227, <<18904, 12799, 3594, 217>>, -50, <<16017, 21403, 9154, 142>>, -52>>,
       <<19, 19, 47, 55, 1, <<5184, 21572, 20649, 253>>, -47, <<30928, 19467, 17906, 188>>, -53, 111, <<21519, 27716, 26846, 207>>, -54, <<30591, 20226, 48, 153>>, -52>>,
       <<11, 6, 49, 53, 1, <<16714, 15996, 24177, 152>>, -47, <<26259, 4892, 15812, 171>>, -51, 133, <<29985, 17165, 14477, 201>>, -54, <<18821, 11797, 32722, 145>>, -52>>,
       <<13, 11, 32, 32, 1, <<1681, 30907, 27410, 128>>, -47, <<29608, 17803, 22348, 197>>, -50, 7, <<6146, 8402, 10840, 236>>, -52, <<25472, 15786, 28259, 146>>, -52>>,
       <<23, 7, 22, 53, 1, <<9608, 32673, 30236, 170>>, -48, <<22254, 9819, 25616, 155>>, -51, 198, <<20771, 7683, 14574, 233>>, -53, <<13331, 18649, 19068, 149>>, -52>>,
       <<29, 17, 44, 38, 1, <<30048, 1691, 13092, 146>>, -49, <<29654, 24687, 11645, 236>>, -52, 104, <<25252, 18237, 27955, 154>>, -55, <<7356, 23613, 15780, 155>>, -52>>,
       <<24, 1, 35, 17, 1, <<8115, 19213, 7588, 206>>, -48, <<4087, 11402, 11822, 194>>, -48, 32, <<18141, 11514, 10772, 194>>, -55, <<23484, 10950, 8350, 154>>, -52>>,
       <<23, 11, 13, 45, 1, <<31580, 6594, 17189, 147>>, -50, <<3077, 28261, 18111, 208>>, -48, 19, <<7437, 30251, 32223, 169>>, -54, <<18875, 10343, 14032, 152>>, -52>>,
       <<13, 21, 59, 45, 1, <<9624, 9727, 26946, 146>>, -47, <<1194, 29445, 15571, 143>>, -52, 28, <<17531, 26722, 18364, 165>>, -52, <<16692, 12639, 9100, 164>>, -52>>,
       <<4, 6, 10, 57, 1, <<9443, 29740, 15437, 131>>, -47, <<4535, 5425, 25225, 152>>, -53, 239, <<20210, 28499, 18706, 236>>, -50, <<2905, 19295, 4614, 145>>, -52>>,
       <<24, 0, 32, 14, 1, <<26011, 25870, 9325, 135>>, -47, <<16440, 17814, 15805, 206>>, -50, 108, <<2025, 9560, 994, 143>>, -52, <<964, 18265, 11514, 143>>, -52>>,
       <<30, 23, 31, 43, 1, <<31212, 19345, 24271, 157>>, -47, <<11434, 11447, 20745, 199>>, -57, 9, <<29234, 20618, 8883, 149>>, -52, <<5553, 31732, 20046, 155>>, -52>>,
       <<24, 1, 12, 58, 1, <<10059, 19143, 14013, 196>>, -48, <<5830, 11681, 20333, 242>>, -51, 78, <<914, 11254, 8120, 223>>, -51, <<26331, 14039, 21512, 143>>, -52>>,
       <<22, 7, 55, 13, 1, <<1800, 15835, 14613, 187>>, -48, <<29289, 2653, 25774, 130>>, -49, 128, <<26369, 27975, 16320, 170>>, -50, <<9297, 18537, 16025, 144>>, -52>>,
       <<12, 18, 43, 47, 1, <<16310, 19481, 13562, 214>>, -48, <<30460, 9030, 11322, 169>>, -50, 166, <<2743, 19173, 29003, 172>>, -51, <<11429, 23930, 102, 145>>, -52>>,
       <<11, 12, 35, 38, 1, <<26477, 14866, 12698, 215>>, -48, <<7791, 21575, 17896, 240>>, -53, 63, <<24826, 29309, 1704, 153>>, -50, <<12973, 18205, 13436, 142>>, -52>>,
       <<11, 14, 35, 59, 1, <<6441, 30078, 28992, 158>>, -48, <<11659, 10456, 29862, 132>>, -49, 173, <<996, 20122, 760, 146>>, -50, <<11615, 15357, 20600, 164>>, -52>>,
       <<15, 22, 23, 33, 1, <<24239, 1427, 7778, 229>>, -49, <<19792, 22725, 3898, 133>>, -50, 68, <<16129, 24549, 25943, 198>>, -51, <<15713, 10693, 19595, 162>>, -52>>,
       <<27, 14, 30, 58, 1, <<16279, 29152, 18218, 167>>, -48, <<28798, 3834, 6614, 130>>, -50, 125, <<30715, 22901, 2799, 172>>, -51, <<14834, 24409, 21258, 159>>, -52>>,
       <<16, 3, 28, 14, 1, <<9241, 15423, 23392, 196>>, -48, <<11397, 16903, 26055, 205>>, -52, 20, <<2532, 4510, 1905, 199>>, -51, <<1449, 7095, 13000, 158>>, -52>>,
       <<8, 23, 15, 9, 1, <<20240, 19938, 26277, 168>>, -48, <<18218, 5016, 25676, 190>>, -50, 78, <<25644, 10206, 25428, 223>>, -51, <<18345, 28587, 30215, 153>>, -52>>,
       <<28, 3, 22, 27, 1, <<23490, 15775, 13480, 203>>, -48, <<17242, 4320, 22439, 224>>, -52, 109, <<4726, 7684, 13704, 175>>, -54, <<29231, 26428, 21553, 164>>, -52>>,
       <<28, 16, 56, 14, 1, <<18424, 8740, 30118, 197>>, -51, <<19484, 30691, 10895, 229>>, -52, 20, <<21065, 14776, 11412, 166>>, -51, <<31219, 23741, 4538, 148>>, -52>>,
       <<0, 0, 12, 45, 1, <<9530, 26245, 15585, 171>>, -47, <<8323, 10959, 16319, 197>>, -54, 187, <<9071, 6941, 30190, 160>>, -50, <<10233, 674, 26056, 141>>, -52>>,
       <<18, 22, 3, 19, 1, <<30545, 20542, 15905, 183>>, -47, <<14381, 15891, 28850, 146>>, -51, 112, <<10781, 28550, 6772, 130>>, -55, <<14778, 25745, 217, 148>>, -52>>,
       <<28, 19, 41, 44, 1, <<31496, 17663, 4601, 204>>, -48, <<1508, 24682, 3460, 159>>, -51, 246, <<5768, 17883, 23470, 232>>, -51, <<18337, 9054, 1073, 157>>, -52>>,
       <<20, 21, 17, 1, 1, <<30100, 11912, 5046, 207>>, -47, <<20022, 27836, 11874, 215>>, -51, 26, <<5912, 738, 48, 252>>, -50, <<1696, 5232, 22208, 148>>, -52>>,
       <<7, 22, 14, 16, 1, <<1077, 26566, 31152, 182>>, -49, <<10046, 10931, 23142, 141>>, -51, 62, <<16939, 25259, 16420, 172>>, -53, <<18947, 18420, 13630, 164>>, -52>>,
       <<27, 15, 15, 39, 1, <<12544, 25818, 17586, 226>>, -55, <<19554, 16974, 1354, 225>>, -51, 265, <<4946, 22176, 23968, 133>>, -50, <<22614, 4322, 20494, 151>>, -52>>,
       <<6, 1, 47, 11, 1, <<1266, 27818, 10753, 171>>, -48, <<18477, 19005, 17821, 230>>, -50, 255, <<30374, 9231, 12407, 158>>, -52, <<24595, 10402, 27133, 152>>, -52>>,
       <<25, 12, 4, 56, 1, <<17629, 11857, 21902, 232>>, -48, <<20523, 17725, 28158, 163>>, -52, 21, <<1312, 18342, 28239, 217>>, -52, <<29654, 4116, 20258, 142>>, -52>>,
       <<14, 20, 24, 51, 1, <<23514, 19050, 4179, 193>>, -48, <<11655, 4288, 7744, 218>>, -52, 251, <<7588, 14289, 14754, 182>>, -52, <<21224, 13828, 18218, 155>>, -52>>,
       <<9, 22, 5, 15, 1, <<15386, 32452, 31601, 217>>, -49, <<5654, 16800, 12396, 133>>, -49, 69, <<11748, 19692, 20879, 242>>, -51, <<1687, 14685, 31078, 164>>, -52>>,
       <<2, 15, 0, 26, 1, <<12182, 20548, 17490, 146>>, -48, <<13794, 1577, 19456, 206>>, -51, 62, <<3631, 13503, 18852, 153>>, -51, <<16186, 15132, 7041, 147>>, -52>>,
       <<6, 12, 31, 0, 1, <<8935, 16907, 31101, 237>>, -48, <<10623, 10162, 23379, 140>>, -50, 248, <<15356, 22845, 12021, 144>>, -49, <<25975, 13216, 2037, 147>>, -52>>,
       <<19, 9, 45, 27, 1, <<20687, 15516, 744, 134>>, -47, <<2292, 20099, 18131, 128>>, -50, 154, <<12778, 2888, 24122, 149>>, -52, <<23068, 8265, 3952, 153>>, -52>>,
       <<25, 9, 4, 9, 1, <<337, 1920, 12449, 204>>, -47, <<14222, 1920, 13466, 169>>, -51, 95, <<13856, 28256, 2898, 202>>, -52, <<8741, 25146, 23953, 154>>, -52>>,
       <<9, 19, 32, 3, 1, <<12206, 19782, 7670, 210>>, -48, <<9115, 2512, 3954, 237>>, -53, 125, <<14209, 8181, 15852, 181>>, -53, <<28298, 1363, 31042, 148>>, -52>>,
       <<5, 17, 13, 18, 1, <<27628, 18385, 17751, 130>>, -49, <<17787, 27032, 19875, 219>>, -51, 42, <<2922, 6760, 17724, 164>>, -52, <<9710, 2311, 5928, 144>>, -52>>,
       <<23, 10, 16, 36, 1, <<11793, 19601, 12045, 240>>, -49, <<10331, 11534, 4957, 147>>, -50, 218, <<11310, 13662, 16529, 211>>, -58, <<17213, 23025, 775, 142>>, -52>>,
       <<25, 16, 55, 33, 1, <<26584, 26721, 15634, 227>>, -48, <<22536, 255, 22621, 164>>, -52, 257, <<27160, 25694, 3468, 171>>, -50, <<19784, 18025, 27094, 152>>, -52>>,
       <<24, 5, 26, 55, 1, <<12978, 6924, 24124, 197>>, -48, <<560, 8476, 25610, 214>>, -50, 176, <<18101, 161, 9604, 162>>, -51, <<18919, 2227, 266, 165>>, -52>>,
       <<15, 13, 2, 48, 1, <<8016, 17194, 8439, 200>>, -48, <<20919, 21214, 27001, 185>>, -50, 227, <<14574, 1131, 21755, 136>>, -49, <<31838, 9011, 14633, 142>>, -52>>,
       <<15, 5, 23, 34, 1, <<6811, 775, 32172, 204>>, -49, <<8868, 27081, 11317, 193>>, -49, 168, <<10428, 19773, 8658, 193>>, -51, <<9239, 9746, 14333, 154>>, -52>>,
       <<3, 21, 42, 18, 1, <<31633, 28279, 21905, 156>>, -46, <<30049, 1124, 11767, 190>>, -51, 219, <<7542, 9962, 28425, 200>>, -54, <<32064, 864, 18190, 164>>, -52>>,
       <<10, 7, 5, 19, 1, <<18620, 16033, 21306, 229>>, -48, <<25079, 3753, 20184, 135>>, -53, 155, <<8575, 12265, 16613, 156>>, -52, <<14615, 13279, 19808, 158>>, -52>>,
       <<20, 13, 17, 30, -1, <<10306, 16934, 16707, 154>>, -48, <<15881, 8823, 10378, 142>>, -52, 232, <<18119, 31547, 11351, 242>>, -51, <<29196, 13783, 7966, 163>>, -52>>,
       <<25, 19, 37, 18, 1, <<16929, 12767, 32292, 245>>, -49, <<15812, 11380, 10856, 182>>, -48, 215, <<5707, 32268, 25035, 135>>, -51, <<17918, 27920, 13014, 158>>, -52>>,
       <<18, 10, 47, 4, 1, <<2913, 21161, 27418, 188>>, -48, <<6882, 10094, 23028, 158>>, -52, 72, <<32496, 15196, 12082, 136>>, -50, <<21279, 6631, 18271, 146>>, -52>>,
       <<3, 3, 47, 55, 1, <<3812, 24745, 2464, 228>>, -48, <<6934, 14044, 11446, 208>>, -52, 38, <<31206, 28380, 13666, 162>>, -50, <<30341, 20038, 23948, 164>>, -52>>,
       <<3, 11, 55, 41, 1, <<5559, 4989, 12605, 173>>, -47, <<3483, 4767, 32745, 138>>, -48, 255, <<17884, 8251, 5854, 200>>, -50, <<14087, 17928, 10363, 161>>, -52>>,
       <<3, 0, 30, 20, 1, <<10982, 8508, 14473, 131>>, -47, <<24930, 3815, 30879, 149>>, -49, 72, <<12831, 31994, 10896, 132>>, -50, <<19526, 13673, 11710, 144>>, -52>>,
       <<16, 6, 42, 3, 1, <<12449, 18874, 22290, 202>>, -49, <<10, 18890, 4518, 197>>, -50, 180, <<4716, 14035, 13821, 130>>, -51, <<31234, 18302, 29991, 160>>, -52>>,
       <<19, 17, 26, 21, 1, <<12972, 1026, 31112, 181>>, -50, <<23052, 30517, 2834, 221>>, -51, 5, <<12864, 7501, 9786, 238>>, -52, <<32219, 7360, 23032, 142>>, -52>>,
       <<17, 13, 37, 39, 1, <<31052, 7751, 21105, 240>>, -50, <<6256, 21260, 16079, 189>>, -49, 128, <<10557, 13872, 27746, 176>>, -52, <<5645, 21019, 9361, 159>>, -52>>,
       <<5, 13, 42, 3, 1, <<17080, 11193, 16691, 149>>, -51, <<8691, 9989, 13266, 189>>, -50, 89, <<16260, 7082, 23029, 137>>, -50, <<1221, 20941, 9581, 142>>, -52>>,
       <<0, 20, 53, 15, 1, <<3446, 20702, 7828, 180>>, -47, <<20673, 31998, 31207, 165>>, -52, 55, <<9222, 2170, 18293, 134>>, -52, <<6775, 16750, 28091, 158>>, -52>>,
       <<21, 7, 57, 48, -1, <<1488, 24587, 20463, 185>>, -50, <<5144, 28948, 25310, 133>>, -52, 211, <<15036, 11532, 22233, 208>>, -52, <<27766, 10659, 25108, 145>>, -52>>,
       <<14, 1, 13, 52, 1, <<25449, 11862, 24980, 245>>, -48, <<2909, 18743, 27286, 242>>, -50, 168, <<4384, 22505, 25613, 157>>, -55, <<10853, 18591, 5407, 163>>, -52>>,
       <<10, 18, 45, 26, 1, <<19438, 8763, 30526, 181>>, -47, <<17339, 1151, 6577, 167>>, -49, 49, <<21989, 15726, 10584, 137>>, -52, <<27776, 29432, 19618, 155>>, -52>>,
       <<19, 6, 7, 15, 1, <<15891, 7332, 29168, 166>>, -48, <<6675, 3819, 29961, 254>>, -51, 181, <<15754, 24943, 312, 158>>, -48, <<9845, 10259, 27080, 146>>, -52>>,
       <<24, 21, 48, 3, -1, <<12896, 26132, 10423, 149>>, -53, <<4267, 14304, 13998, 214>>, -51, 176, <<12580, 2171, 31899, 222>>, -51, <<11221, 10412, 10698, 148>>, -52>>,
       <<9, 16, 21, 29, 1, <<8825, 26035, 9371, 224>>, -48, <<11256, 17567, 28684, 141>>, -52, 230, <<11249, 28715, 19934, 134>>, -50, <<4285, 26072, 20515, 143>>, -52>>,
       <<2, 1, 15, 29, 1, <<17296, 14363, 21427, 210>>, -52, <<15676, 14069, 32568, 239>>, -51, 133, <<19182, 9132, 7094, 197>>, -52, <<26656, 2463, 3160, 165>>, -52>>,
       <<27, 15, 57, 19, 1, <<21926, 26591, 3236, 248>>, -48, <<22271, 31942, 31764, 133>>, -52, 57, <<1318, 17941, 28317, 131>>, -52, <<2513, 11113, 13625, 148>>, -52>>,
       <<15, 21, 53, 47, 1, <<32458, 32239, 31445, 248>>, -48, <<19102, 23183, 32738, 194>>, -51, 6, <<17367, 31294, 8570, 208>>, -53, <<16375, 1837, 17218, 150>>, -52>>,
       <<8, 17, 52, 13, 1, <<20086, 11831, 8920, 135>>, -48, <<17465, 29756, 15226, 157>>, -50, 150, <<23645, 26340, 26860, 160>>, -53, <<21549, 12507, 26264, 162>>, -52>>,
       <<20, 16, 32, 30, -1, <<13224, 26847, 15404, 224>>, -51, <<21622, 13297, 30781, 201>>, -54, 36, <<6872, 6994, 5310, 128>>, -51, <<5834, 872, 20233, 161>>, -52>>,
       <<3, 4, 44, 22, 1, <<11667, 30331, 21488, 168>>, -47, <<7759, 25165, 2678, 165>>, -53, 230, <<25803, 28044, 2749, 162>>, -50, <<12247, 11140, 28138, 165>>, -52>>,
       <<12, 14, 2, 23, 1, <<1146, 1490, 17795, 176>>, -49, <<18903, 18989, 15455, 223>>, -53, 163, <<15859, 227, 11450, 158>>, -53, <<15350, 26317, 11566, 143>>, -52>>,
       <<23, 14, 4, 44, 1, <<28258, 15760, 16860, 129>>, -47, <<18547, 2773, 23639, 199>>, -51, 107, <<30328, 9134, 21360, 185>>, -53, <<2147, 26029, 871, 154>>, -52>>,
       <<11, 16, 36, 45, 1, <<26472, 9717, 15294, 142>>, -49, <<28126, 2744, 11969, 199>>, -51, 7, <<2377, 3349, 9723, 180>>, -51, <<17123, 4011, 5840, 148>>, -52>>,
       <<12, 15, 17, 16, 1, <<5796, 15775, 30517, 234>>, -50, <<1705, 6809, 26870, 202>>, -51, 116, <<9140, 11084, 11007, 134>>, -49, <<9443, 26682, 32658, 157>>, -52>>,
       <<11, 11, 27, 1, 1, <<17821, 14444, 3683, 128>>, -47, <<9847, 1940, 30965, 179>>, -48, 57, <<28734, 30714, 1442, 130>>, -49, <<18593, 3118, 3152, 150>>, -52>>,
       <<18, 10, 8, 13, 1, <<9964, 13239, 32366, 199>>, -50, <<31286, 29160, 28266, 135>>, -51, 220, <<28147, 2007, 11342, 133>>, -53, <<25807, 20706, 30433, 141>>, -52>>,
       <<25, 9, 11, 39, 1, <<1068, 17092, 19867, 244>>, -48, <<17167, 25214, 912, 132>>, -53, 65, <<14532, 13779, 15643, 142>>, -52, <<18117, 8938, 22056, 164>>, -52>>,
       <<19, 9, 4, 49, 1, <<9156, 31934, 954, 171>>, -47, <<14634, 31651, 1373, 192>>, -54, 159, <<12278, 29016, 27171, 207>>, -51, <<16001, 29970, 31901, 158>>, -52>>,
       <<3, 7, 0, 58, 1, <<23394, 1030, 2042, 237>>, -48, <<11329, 21260, 24831, 238>>, -52, 11, <<15079, 19429, 198, 195>>, -55, <<18805, 25945, 3740, 142>>, -52>>,
       <<17, 14, 16, 29, 1, <<16354, 30426, 18366, 243>>, -48, <<27805, 16169, 25930, 199>>, -53, 213, <<17758, 10036, 30408, 209>>, -52, <<13046, 23179, 18142, 142>>, -52>>,
       <<23, 7, 44, 9, -1, <<23968, 29957, 30725, 208>>, -53, <<23489, 28981, 31409, 188>>, -51, 262, <<16098, 27506, 19562, 255>>, -54, <<24266, 27954, 7131, 164>>, -52>>,
       <<10, 12, 11, 8, 1, <<18344, 17664, 24112, 188>>, -47, <<6761, 4128, 15836, 165>>, -52, 61, <<12163, 5501, 21644, 214>>, -53, <<6037, 30666, 23130, 144>>, -52>>,
       <<20, 22, 42, 26, 1, <<29932, 23409, 10675, 212>>, -48, <<7495, 8481, 8348, 162>>, -48, 62, <<22061, 7541, 1766, 134>>, -49, <<10146, 30294, 9540, 159>>, -52>>,
       <<14, 18, 47, 56, 1, <<23540, 20683, 8482, 238>>, -49, <<13159, 20315, 9612, 128>>, -51, 176, <<5465, 28738, 18283, 150>>, -49, <<6834, 347, 12880, 162>>, -52>>,
       <<12, 22, 9, 2, 1, <<9702, 10238, 985, 186>>, -47, <<29094, 21632, 2604, 129>>, -49, 205, <<18612, 11810, 19668, 150>>, -50, <<476, 28365, 24406, 145>>, -52>>,
       <<22, 5, 1, 20, 1, <<4626, 10989, 11717, 171>>, -47, <<28857, 4364, 7603, 174>>, -48, 221, <<5403, 3924, 25065, 145>>, -51, <<18226, 8839, 29138, 153>>, -52>>,
       <<14, 20, 23, 25, 1, <<14498, 21224, 4837, 164>>, -48, <<11652, 7352, 18745, 149>>, -51, 252, <<10588, 19709, 24040, 157>>, -51, <<14978, 31717, 10750, 147>>, -52>>,
       <<21, 16, 13, 41, 1, <<6742, 14869, 30133, 157>>, -47, <<13532, 10367, 13672, 194>>, -51, 83, <<18942, 19633, 16277, 212>>, -52, <<24947, 27227, 13235, 144>>, -52>>,
       <<19, 17, 30, 22, 1, <<22214, 10992, 8525, 142>>, -47, <<10285, 26090, 20293, 204>>, -50, 132, <<242, 29160, 13514, 157>>, -49, <<2475, 12756, 20850, 152>>, -52>>,
       <<0, 23, 48, 34, -1, <<12800, 23687, 12442, 185>>, -50, <<11435, 8719, 31157, 149>>, -49, 213, <<24782, 2117, 8975, 221>>, -50, <<15379, 3019, 6171, 154>>, -52>>,
       <<14, 0, 6, 52, 1, <<6320, 31541, 6512, 233>>, -50, <<28758, 8064, 29816, 225>>, -51, 142, <<15612, 10718, 2617, 162>>, -49, <<17861, 31631, 29682, 164>>, -52>>,
       <<13, 17, 21, 8, 1, <<27644, 17688, 24063, 164>>, -49, <<15610, 14861, 7107, 203>>, -53, 178, <<32133, 24549, 32582, 185>>, -53, <<15383, 23157, 24891, 147>>, -52>>,
       <<13, 12, 28, 9, 1, <<9772, 1791, 93, 211>>, -47, <<27499, 5657, 10841, 200>>, -50, 261, <<3061, 27170, 18829, 136>>, -53, <<11382, 24539, 13846, 149>>, -52>>,
       <<15, 3, 11, 10, 1, <<26173, 6435, 24504, 175>>, -48, <<19465, 18552, 13393, 244>>, -50, 18, <<22050, 6462, 20639, 222>>, -51, <<32046, 9752, 8844, 141>>, -52>>,
       <<7, 5, 3, 11, 1, <<31938, 21857, 5404, 199>>, -47, <<12164, 16487, 25654, 152>>, -49, 217, <<21797, 24162, 27588, 236>>, -53, <<29755, 15021, 13495, 158>>, -52>>,
       <<12, 8, 6, 11, 1, <<24641, 22335, 5816, 217>>, -49, <<18284, 29875, 20888, 216>>, -51, 44, <<13628, 3687, 14997, 202>>, -49, <<29755, 19300, 4461, 147>>, -52>>,
       <<8, 20, 8, 58, 1, <<19602, 5040, 1195, 164>>, -48, <<6435, 26243, 11774, 203>>, -53, 140, <<17007, 8515, 14169, 141>>, -49, <<19236, 5397, 14583, 163>>, -52>>,
       <<5, 20, 19, 38, 1, <<13432, 11992, 31646, 132>>, -47, <<27514, 2223, 12590, 132>>, -51, 117, <<15082, 7977, 19397, 151>>, -50, <<24573, 22223, 22942, 152>>, -52>>,
       <<20, 3, 16, 36, 1, <<11025, 14023, 19439, 241>>, -49, <<29682, 29171, 20954, 159>>, -51, 109, <<7357, 10630, 13872, 140>>, -50, <<17314, 9348, 2742, 143>>, -52>>,
       <<16, 8, 19, 44, 1, <<4683, 30060, 27380, 140>>, -48, <<3694, 8101, 9124, 214>>, -51, 84, <<13624, 17002, 2947, 195>>, -50, <<12019, 32695, 23308, 164>>, -52>>,
       <<0, 13, 8, 29, 1, <<19866, 21792, 27320, 210>>, -48, <<10378, 31522, 9564, 142>>, -48, 114, <<19450, 21435, 18916, 157>>, -51, <<843, 20952, 512, 161>>, -52>>,
       <<3, 17, 42, 56, 1, <<26032, 11569, 19714, 148>>, -47, <<2530, 22347, 30274, 251>>, -49, 215, <<589, 15249, 1038, 174>>, -51, <<24602, 10342, 19198, 152>>, -52>>,
       <<28, 9, 20, 53, 1, <<4575, 15776, 1092, 226>>, -49, <<31907, 18556, 17734, 141>>, -52, 157, <<28786, 26163, 9650, 205>>, -50, <<22952, 28986, 16929, 155>>, -52>>,
       <<1, 23, 14, 38, 1, <<20624, 2310, 24319, 143>>, -47, <<15258, 11466, 18290, 198>>, -49, 100, <<21236, 9851, 19561, 129>>, -53, <<25116, 2507, 152, 161>>, -52>>,
       <<15, 18, 14, 57, 1, <<24406, 17251, 11696, 192>>, -47, <<30900, 8115, 5255, 168>>, -51, 106, <<14948, 6444, 11260, 188>>, -54, <<18162, 25152, 7022, 151>>, -52>>,
       <<18, 17, 27, 6, 1, <<29223, 4730, 16485, 207>>, -48, <<12882, 26973, 969, 213>>, -50, 46, <<25736, 22967, 13109, 143>>, -49, <<15806, 13942, 1816, 163>>, -52>>,
       <<22, 5, 36, 36, 1, <<21619, 23286, 32225, 154>>, -47, <<5820, 21665, 2465, 146>>, -51, 262, <<10414, 19715, 30069, 183>>, -49, <<14065, 615, 14637, 159>>, -52>>,
       <<6, 12, 12, 39, 1, <<30577, 10272, 3689, 231>>, -49, <<5744, 27397, 8904, 199>>, -50, 194, <<28608, 28911, 3248, 184>>, -55, <<8188, 12652, 10796, 150>>, -52>>,
       <<16, 7, 33, 37, 1, <<4872, 5637, 14976, 138>>, -47, <<22391, 4817, 17999, 145>>, -51, 179, <<3547, 24081, 12699, 177>>, -52, <<7720, 6718, 30852, 147>>, -52>>,
       <<15, 11, 13, 55, 1, <<11906, 23837, 30794, 135>>, -47, <<30383, 30172, 8532, 209>>, -50, 77, <<22734, 28497, 21701, 218>>, -51, <<5916, 23114, 2346, 162>>, -52>>,
       <<14, 13, 50, 11, 1, <<8671, 11710, 6584, 151>>, -47, <<6148, 25961, 25247, 130>>, -50, 185, <<16152, 21981, 24327, 190>>, -52, <<26990, 4896, 14114, 162>>, -52>>,
       <<19, 23, 22, 16, 1, <<9282, 25426, 16816, 243>>, -48, <<7502, 3734, 3024, 204>>, -51, 186, <<4925, 12336, 24753, 200>>, -54, <<6187, 8267, 7468, 146>>, -52>>,
       <<12, 20, 48, 39, 1, <<22722, 16093, 8699, 136>>, -48, <<12593, 8088, 4019, 236>>, -51, 186, <<261, 842, 2453, 166>>, -51, <<16340, 2457, 12042, 157>>, -52>>,
       <<3, 11, 32, 32, 1, <<15085, 12850, 21164, 184>>, -48, <<19851, 6270, 12455, 247>>, -50, 45, <<9344, 12938, 8100, 199>>, -50, <<28520, 10173, 32111, 159>>, -52>>,
       <<23, 23, 51, 12, 1, <<3909, 14903, 17045, 130>>, -47, <<12354, 32592, 19998, 218>>, -52, 53, <<15349, 18087, 15837, 241>>, -53, <<3741, 11565, 29254, 153>>, -52>>,
       <<25, 18, 46, 25, 1, <<6634, 8130, 6612, 235>>, -49, <<141, 7498, 19390, 137>>, -51, 202, <<9985, 2502, 9592, 170>>, -51, <<2699, 19204, 13423, 155>>, -52>>,
       <<5, 20, 44, 49, 1, <<21136, 3915, 19981, 138>>, -48, <<17259, 2917, 20600, 148>>, -53, 114, <<22121, 136, 2455, 161>>, -51, <<19396, 20061, 2913, 162>>, -52>>,
       <<6, 19, 33, 34, 1, <<27568, 12379, 31743, 145>>, -51, <<9408, 7786, 5049, 153>>, -50, 19, <<2298, 24758, 31943, 230>>, -50, <<11865, 7497, 2695, 163>>, -52>>,
       <<13, 14, 45, 38, 1, <<29904, 1282, 14245, 212>>, -52, <<768, 26837, 17395, 191>>, -51, 145, <<20986, 3381, 28561, 254>>, -52, <<10518, 25830, 32649, 163>>, -52>>,
       <<24, 17, 56, 36, 1, <<21750, 24767, 12676, 149>>, -47, <<24788, 3039, 5819, 217>>, -50, 37, <<17363, 28896, 17229, 133>>, -50, <<29346, 16970, 22754, 164>>, -52>>,
       <<18, 11, 3, 47, 1, <<3838, 13274, 2370, 136>>, -49, <<15715, 23247, 10831, 230>>, -50, 22, <<7243, 2405, 30399, 174>>, -51, <<10750, 1911, 11183, 153>>, -52>>,
       <<23, 21, 55, 37, 1, <<1436, 21175, 26280, 128>>, -47, <<9197, 2054, 8473, 148>>, -50, 136, <<28013, 20332, 13873, 230>>, -50, <<21968, 15157, 344, 141>>, -52>>,
       <<8, 12, 22, 11, 1, <<5200, 2373, 8657, 191>>, -48, <<3666, 12240, 25065, 169>>, -50, 241, <<27613, 28664, 15121, 216>>, -50, <<2654, 26206, 22172, 157>>, -52>>,
       <<0, 19, 29, 44, 1, <<13558, 23460, 28867, 153>>, -48, <<20003, 27202, 22276, 130>>, -50, 43, <<10484, 25790, 14224, 190>>, -54, <<32543, 18636, 7056, 150>>, -52>>,
       <<24, 15, 12, 19, 1, <<29450, 8321, 25487, 139>>, -48, <<20556, 2499, 12874, 192>>, -50, 229, <<7257, 16526, 5592, 226>>, -54, <<2404, 8898, 17368, 149>>, -52>>,
       <<18, 16, 4, 24, 1, <<32660, 20379, 9285, 255>>, -49, <<11470, 9615, 1878, 150>>, -50, 219, <<15076, 19727, 16611, 231>>, -52, <<23320, 21438, 910, 147>>, -52>>,
       <<2, 14, 54, 18, 1, <<8408, 9031, 17625, 243>>, -48, <<5656, 9743, 24028, 185>>, -48, 6, <<22319, 25685, 26805, 157>>, -52, <<30903, 30980, 3358, 144>>, -52>>,
       <<6, 2, 46, 32, 1, <<27598, 25946, 6071, 178>>, -47, <<13219, 15743, 848, 233>>, -50, 182, <<5196, 4897, 18503, 209>>, -57, <<31137, 494, 20379, 156>>, -52>>,
       <<15, 7, 38, 51, 1, <<22359, 19341, 31104, 182>>, -49, <<28588, 28482, 28908, 136>>, -51, 180, <<13727, 1572, 23190, 206>>, -52, <<20421, 9363, 19555, 147>>, -52>>,
       <<17, 19, 22, 33, -1, <<4728, 368, 18442, 218>>, -49, <<23763, 10048, 29628, 151>>, -52, 148, <<25947, 20849, 23263, 137>>, -51, <<9907, 16923, 32185, 148>>, -52>>,
       <<18, 22, 14, 58, 1, <<24635, 31246, 9219, 162>>, -48, <<804, 2296, 30834, 156>>, -50, 241, <<28868, 20706, 30878, 131>>, -50, <<9643, 9235, 8118, 164>>, -52>>,
       <<1, 0, 15, 38, 1, <<15865, 22715, 31357, 190>>, -49, <<5180, 14070, 13944, 143>>, -52, 184, <<27444, 895, 9956, 247>>, -56, <<1457, 8320, 5585, 141>>, -52>>,
       <<23, 23, 6, 25, 1, <<18146, 10182, 32759, 216>>, -47, <<21888, 20541, 12264, 217>>, -52, 136, <<1560, 19527, 7770, 194>>, -50, <<25694, 32076, 9036, 150>>, -52>>,
       <<17, 23, 24, 51, 1, <<4807, 1215, 16098, 153>>, -47, <<7538, 6187, 27227, 175>>, -52, 52, <<180, 21205, 13382, 152>>, -50, <<25171, 22580, 15617, 151>>, -52>>,
       <<16, 8, 56, 34, 1, <<17360, 20365, 3384, 170>>, -48, <<15726, 2217, 708, 129>>, -50, 140, <<28180, 4985, 28191, 190>>, -52, <<22662, 2259, 7740, 164>>, -52>>,
       <<0, 1, 7, 21, 1, <<24565, 3432, 2189, 152>>, -48, <<19306, 1117, 6270, 165>>, -52, 198, <<23351, 30798, 15654, 156>>, -53, <<976, 9327, 15065, 142>>, -52>>,
       <<7, 5, 39, 1, 1, <<22410, 5314, 5874, 196>>, -48, <<9657, 12975, 31725, 181>>, -50, 39, <<608, 3244, 26992, 212>>, -50, <<17495, 26520, 10714, 149>>, -52>>,
       <<30, 8, 12, 17, 1, <<5445, 19981, 2959, 202>>, -48, <<31887, 25149, 9789, 182>>, -50, 43, <<26150, 15260, 21567, 242>>, -51, <<7884, 16930, 10614, 160>>, -52>>,
       <<18, 10, 34, 39, 1, <<20343, 19434, 1748, 150>>, -48, <<12122, 4899, 8436, 233>>, -52, 112, <<14106, 19538, 11991, 176>>, -53, <<214, 20612, 32339, 160>>, -52>>,
       <<20, 19, 22, 48, 1, <<31316, 19521, 898, 213>>, -49, <<14844, 16039, 5878, 135>>, -50, 77, <<982, 8718, 4759, 147>>, -50, <<2340, 18330, 24130, 156>>, -52>>,
       <<17, 14, 22, 41, 1, <<17696, 24110, 20387, 158>>, -48, <<2891, 2170, 20098, 206>>, -50, 173, <<21218, 11255, 29867, 228>>, -57, <<15287, 31226, 25151, 154>>, -52>>,
       <<12, 0, 43, 19, -1, <<21432, 19825, 23936, 194>>, -50, <<7891, 25933, 19065, 157>>, -49, 123, <<28888, 17090, 9961, 154>>, -50, <<12177, 18244, 21753, 155>>, -52>>,
       <<0, 6, 43, 41, 1, <<6872, 27741, 15853, 218>>, -48, <<29343, 2177, 3828, 154>>, -52, 107, <<1556, 12395, 22809, 248>>, -51, <<7816, 25593, 27992, 153>>, -52>>,
       <<26, 12, 40, 1, 1, <<10481, 11384, 29326, 147>>, -49, <<29028, 11297, 20021, 211>>, -55, 9, <<17773, 20218, 6529, 170>>, -51, <<24166, 8229, 20832, 153>>, -52>>,
       <<3, 12, 6, 15, 1, <<16850, 19664, 25136, 150>>, -47, <<18604, 6252, 30821, 176>>, -50, 139, <<12055, 22432, 23736, 131>>, -55, <<2849, 11043, 28171, 152>>, -52>>,
       <<29, 9, 18, 4, 1, <<12566, 22276, 25732, 196>>, -48, <<2796, 10256, 16678, 215>>, -55, 116, <<16010, 25780, 23757, 177>>, -51, <<31143, 22820, 9519, 161>>, -52>>,
       <<22, 16, 25, 19, 1, <<12230, 17210, 57, 209>>, -47, <<21894, 4007, 1329, 176>>, -50, 217, <<27648, 13183, 17827, 159>>, -54, <<11822, 10786, 21259, 156>>, -52>>,
       <<5, 10, 12, 11, 1, <<6102, 27602, 18561, 164>>, -47, <<12090, 24764, 3206, 244>>, -50, 28, <<23916, 11715, 408, 143>>, -55, <<14468, 5066, 14681, 162>>, -52>>,
       <<2, 5, 57, 1, 1, <<16077, 13413, 8454, 141>>, -48, <<4996, 16098, 32159, 199>>, -50, 13, <<23782, 605, 20851, 253>>, -53, <<22479, 11098, 6814, 165>>, -52>>,
       <<10, 23, 33, 7, 1, <<5093, 28817, 22621, 143>>, -47, <<29360, 5091, 16429, 135>>, -52, 54, <<5091, 27920, 27475, 224>>, -53, <<15194, 8607, 20167, 151>>, -52>>,
       <<25, 0, 31, 56, 1, <<16010, 12697, 31568, 164>>, -49, <<17452, 27976, 10415, 216>>, -51, 149, <<22933, 10497, 1405, 239>>, -51, <<28142, 25262, 21201, 155>>, -52>>,
       <<14, 11, 46, 24, 1, <<11232, 9884, 15377, 139>>, -48, <<30387, 9501, 2690, 138>>, -51, 158, <<12900, 15021, 32555, 165>>, -49, <<17767, 10179, 15075, 152>>, -52>>,
       <<15, 23, 13, 25, 1, <<17664, 20722, 29586, 140>>, -51, <<18366, 15046, 5135, 165>>, -57, 66, <<3580, 5796, 18859, 172>>, -53, <<2940, 19273, 2872, 148>>, -52>>,
       <<24, 2, 4, 37, 1, <<2926, 13062, 8100, 172>>, -47, <<9260, 949, 5496, 218>>, -53, 263, <<10641, 25065, 5115, 182>>, -55, <<29690, 2020, 23023, 160>>, -52>>,
       <<9, 13, 35, 37, 1, <<8531, 9562, 31702, 140>>, -47, <<14336, 31720, 1741, 132>>, -49, 92, <<23506, 13084, 14489, 225>>, -50, <<21720, 30552, 22368, 153>>, -52>>,
       <<14, 2, 13, 1, 1, <<21655, 24745, 22820, 181>>, -47, <<24038, 15705, 32544, 239>>, -50, 145, <<28842, 23514, 8882, 225>>, -53, <<24558, 30995, 28486, 162>>, -52>>,
       <<29, 20, 20, 20, 1, <<25428, 21742, 26228, 206>>, -48, <<9142, 11676, 6319, 162>>, -49, 247, <<2842, 6365, 32418, 131>>, -51, <<19106, 12215, 17012, 161>>, -52>>,
       <<1, 9, 50, 40, 1, <<3912, 22333, 30693, 228>>, -51, <<700, 254, 14310, 157>>, -50, 225, <<8926, 23928, 30156, 250>>, -53, <<19578, 22814, 28397, 144>>, -52>>,
       <<30, 17, 22, 59, -1, <<2368, 30539, 28397, 188>>, -51, <<25131, 20660, 29031, 142>>, -50, 40, <<20687, 27982, 17589, 151>>, -50, <<994, 10025, 29530, 160>>, -52>>,
       <<23, 3, 35, 44, 1, <<32595, 25295, 6678, 139>>, -48, <<30323, 26106, 11677, 173>>, -51, 91, <<11734, 24463, 30767, 250>>, -52, <<27746, 1295, 29193, 159>>, -52>>,
       <<28, 19, 58, 42, 1, <<30543, 1363, 25714, 228>>, -48, <<26985, 41, 4749, 150>>, -49, 260, <<31349, 18867, 3733, 135>>, -52, <<19120, 13738, 18672, 163>>, -52>>,
       <<28, 1, 21, 13, 1, <<18249, 21672, 8045, 232>>, -49, <<13337, 28580, 17969, 181>>, -51, 189, <<32081, 32272, 27133, 136>>, -50, <<18972, 7033, 20853, 162>>, -52>>,
       <<26, 6, 26, 24, 1, <<24916, 5370, 30628, 187>>, -47, <<5339, 29755, 28084, 180>>, -50, 25, <<8819, 6896, 497, 176>>, -51, <<13165, 19217, 2357, 148>>, -52>> >>

DrawOf(row) ==
    [days_offset     |-> row[1],        \* np.random.randint(0, 31)
     hour            |-> row[2],        \* np.random.randint(0, 24)
     minute          |-> row[3],        \* np.random.randint(0, 60)
     second          |-> row[4],        \* np.random.randint(0, 60)
     duration        |-> [negative |-> row[5] < 0,      \* np.random.normal(25, 15)
                          m |-> row[6], e |-> row[7]],
     wait            |-> [m |-> row[8], e |-> row[9]],  \* np.random.exponential(5)
     pickup_location |-> row[10],       \* np.random.randint(1, 266)
     distance        |-> [m |-> row[11], e |-> row[12]],    \* np.random.exponential(3)
     tip             |-> [m |-> row[13], e |-> row[14]]]    \* np.random.uniform(1.1, 1.3)

\* the stream after np.random.seed(42), one draw per trip
Seed42 == [i \in 1..Len(Seed42Rows) |-> DrawOf(Seed42Rows[i])]

(***************************************************************************)
(* generate_sample_taxi_data.                                              *)
(***************************************************************************)
\* The uuid4 the default factory of TaxiTrip.id draws for trip i of the call-th
\* run of the generator: never the same value twice.
uuid4(call, i) == <<call, i>>

\* the run of the generator a uuid was drawn in
generator_run(id) == id[1]

\* is_delayed = wait_time > 10
WaitDelayed(wait_time) == FloatLess(FloatOfInt(DelayThreshold), wait_time)

\* lines 134-179: the keyword arguments TaxiTrip(...) is given for one draw
GenTrip(d) ==
    LET pickup_time == [year |-> 2024, month |-> 1, day |-> d.days_offset + 1,
                        hour |-> d.hour, minute |-> d.minute, second |-> d.second]
        trip_duration == IF d.duration.negative THEN FloatOfInt(MinDuration)
                         ELSE FloatMax(FloatOfInt(MinDuration), d.duration)
        wait_time == FloatMax(FloatOfInt(0), d.wait)
        is_delayed == WaitDelayed(wait_time)
        distance == FloatMax(FloatOf(1, 10), d.distance)
        base_fare == FloatOfInt(BaseFare)
        distance_fare == FloatMul(distance, FloatOf(250, 100))
        time_fare == FloatMul(trip_duration, FloatOf(50, 100))
        fare == FloatAdd(FloatAdd(base_fare, distance_fare), time_fare)
        total == FloatMul(fare, d.tip)
    IN  [pickup_datetime          |-> pickup_time,
         pickup_location_id       |-> d.pickup_location,
         trip_distance            |-> round(distance, 100),
         fare_amount              |-> round(fare, 100),
         total_amount             |-> round(total, 100),
         trip_duration_minutes    |-> round(trip_duration, 10),
         is_delayed               |-> is_delayed,
         pickup_wait_time_minutes |-> round(wait_time, 10)]

\* What the loop hands to TaxiTrip(...) for trip 1, 2, ...: the same in every
\* run, the seed being set anew.
SeededTrips == [i \in 1..Len(Seed42) |-> GenTrip(Seed42[i])]

\* TaxiTrip(**fields): the fields and the id of the default factory
TaxiTrip(id, fields) ==
    [id                       |-> id,
     pickup_datetime          |-> fields.pickup_datetime,
     pickup_location_id       |-> fields.pickup_location_id,
     trip_distance            |-> fields.trip_distance,
     fare_amount              |-> fields.fare_amount,
     total_amount             |-> fields.total_amount,
     trip_duration_minutes    |-> fields.trip_duration_minutes,
     is_delayed               |-> fields.is_delayed,
     pickup_wait_time_minutes |-> fields.pickup_wait_time_minutes]

\* the call-th run of the generator
generate_sample_taxi_data(num_trips, call) ==
    [i \in 1..num_trips |-> TaxiTrip(uuid4(call, i), SeededTrips[i])]

\* prepare_for_mongo(trip.dict()): datetimes become their ISO strings
prepare_for_mongo(data) ==
    [data EXCEPT !.pickup_datetime = isoformat(@)]

(***************************************************************************)
(* Documents the collection may hold when the server starts: MongoDB keeps *)
(* what earlier runs stored.  They are given as the fields TaxiTrip(...)   *)
(* was handed: a run of k trips whose pickup zones are 1..k (so that more  *)
(* than TopZones distinct zones occur), with up to MaxExtra freely chosen  *)
(* trips before and after it.  One of the free trips was flagged delayed   *)
(* on a wait that rounded to 10.0, and one stores a wait of 0.3, with      *)
(* which mean waits fall half way between two roundings.                   *)
(***************************************************************************)
RunFields(i) ==
    [pickup_datetime          |-> [year |-> 2024, month |-> 1, day |-> (i % 31) + 1,
                                   hour |-> (i - 1) % HoursPerDay,
                                   minute |-> i % 60, second |-> 0],
     pickup_location_id       |-> ((i - 1) % NumZones) + 1,
     trip_distance            |-> 10 + 32 * i,
     fare_amount              |-> 575 + 160 * i,
     total_amount             |-> 690 + 192 * i,
     trip_duration_minutes    |-> 50 + 16 * i,
     is_delayed               |-> i >= 6,
     pickup_wait_time_minutes |-> 4 + 16 * i]

Run(k) == [i \in 1..k |-> RunFields(i)]

ExtraFields ==
    { [pickup_datetime          |-> [year |-> 2024, month |-> 1, day |-> 1,
                                     hour |-> 5, minute |-> 30, second |-> 15],
       pickup_location_id       |-> 42,
       trip_distance            |-> 100,
       fare_amount              |-> 1599,
       total_amount             |-> 2079,
       trip_duration_minutes    |-> 210,
       is_delayed               |-> TRUE,
       pickup_wait_time_minutes |-> 148],
      [pickup_datetime          |-> [year |-> 2024, month |-> 1, day |-> 31,
                                     hour |-> 23, minute |-> 59, second |-> 59],
       pickup_location_id       |-> 21,
       trip_distance            |-> 10,
       fare_amount              |-> 575,
       total_amount             |-> 644,
       trip_duration_minutes    |-> 50,
       is_delayed               |-> TRUE,
       pickup_wait_time_minutes |-> 100],
      [pickup_datetime          |-> [year |-> 2024, month |-> 1, day |-> 15,
                                     hour |-> 0, minute |-> 0, second |-> 0],
       pickup_location_id       |-> 22,
       trip_distance            |-> 246,
       fare_amount              |-> 2607,
       total_amount             |-> 3050,
       trip_duration_minutes    |-> 338,
       is_delayed               |-> FALSE,
       pickup_wait_time_minutes |-> 3] }

ExtraSeqs(n) == UNION { [1..m -> ExtraFields] : m \in 0..n }

\* the documents insert_many stored for a list of trips, before this run of
\* the server (call 0)
Stored(fields) ==
    [i \in 1..Len(fields) |-> prepare_for_mongo(TaxiTrip(uuid4(0, i), fields[i]))]

\* the record lists the aggregations are checked on
RecordLists ==
    LET Splits == { x \in ExtraSeqs(MaxExtra) \X ExtraSeqs(MaxExtra) :
                        Len(x[1]) + Len(x[2]) <= MaxExtra }
    IN  { Stored(x[1] \o Run(k) \o x[2]) : k \in 0..MaxRun, x \in Splits }

\* what the collection holds when the server starts
Leftovers == { trips \in RecordLists : Len(trips) <= MaxLeftover }

(***************************************************************************)
(* The grouping dicts of the hourly and the zone aggregation.  A dict is   *)
(* its keys in insertion order and its value at each key; a bucket is the  *)
(* three lists the code keeps for a key.                                   *)
(***************************************************************************)
EmptyBucket == [trips |-> <<>>, wait_times |-> <<>>, delays |-> <<>>]

EmptyDict == [keys |-> <<>>, at |-> [k \in {} |-> EmptyBucket]]

BucketAppend(bucket, trip) ==
    [trips      |-> Append(bucket.trips, trip),
     wait_times |-> Append(bucket.wait_times, trip.pickup_wait_time_minutes),
     delays     |-> Append(bucket.delays, trip.is_delayed)]

\* a slip: the `if key not in d` test is missing, every trip resets its bucket
DictAddReset(d, key, trip) ==
    IF key \in DOMAIN d.at
    THEN [keys |-> d.keys,
          at   |-> [d.at EXCEPT ![key] = BucketAppend(EmptyBucket, trip)]]
    ELSE [keys |-> Append(d.keys, key),
          at   |-> d.at @@ (key :> BucketAppend(EmptyBucket, trip))]

\* if key not in d: d[key] = {...empty lists...}; then the three appends
DictAdd(d, key, trip) ==
    IF key \in DOMAIN d.at
    THEN [keys |-> d.keys,
          at   |-> [d.at EXCEPT ![key] = BucketAppend(@, trip)]]
    ELSE [keys |-> Append(d.keys, key),
          at   |-> d.at @@ (key :> BucketAppend(EmptyBucket, trip))]

\* round(avg_wait, 1): mean of the bucket's wait times, in tenths
BucketAvgWait(data) == Mean(data.wait_times, 10)

\* round((sum(delays) / len(delays)) * 100, 1), in tenths of a percent
BucketDelayPct(data) == Percentage(SumBool(data.delays), Len(data.delays))

(***************************************************************************)
(* get_trip_analytics, on the fetched list of trips.                       *)
(***************************************************************************)
\* trip[key] for trip in trips
Column(trips, key) == [i \in 1..Len(trips) |-> trips[i][key]]

ZeroAnalytics ==
    [total_trips |-> 0, avg_trip_duration |-> 0, avg_fare |-> 0,
     total_revenue |-> 0, delayed_trips_count |-> 0,
     delay_percentage |-> 0, avg_wait_time |-> 0]

\* a slip: the percentage is taken of the trips that were not delayed
TripAnalyticsBodyOfOnTime(trips) ==
    LET total_trips == Len(trips)
        delayed_count == SumBool(Column(trips, "is_delayed"))
    IN  [total_trips         |-> total_trips,
         avg_trip_duration   |-> Mean(Column(trips, "trip_duration_minutes"), 10),
         avg_fare            |-> Mean(Column(trips, "fare_amount"), 100),
         total_revenue       |-> RoundDiv(SumSeq(Column(trips, "total_amount")), 1,
                                          FloatSum(Column(trips, "total_amount"), 100), 100),
         delayed_trips_count |-> delayed_count,
         delay_percentage    |-> Percentage(delayed_count, total_trips - delayed_count),
         avg_wait_time       |-> Mean(Column(trips, "pickup_wait_time_minutes"), 10)]

\* lines 198-214: the statistics of a list the code has found non-empty
TripAnalyticsBody(trips) ==
    LET total_trips == Len(trips)
        total_revenue == FloatSum(Column(trips, "total_amount"), 100)
        delayed_count == SumBool(Column(trips, "is_delayed"))
    IN  [total_trips         |-> total_trips,
         avg_trip_duration   |-> Mean(Column(trips, "trip_duration_minutes"), 10),
         avg_fare            |-> Mean(Column(trips, "fare_amount"), 100),
         total_revenue       |-> RoundDiv(SumSeq(Column(trips, "total_amount")), 1,
                                          total_revenue, 100),
         delayed_trips_count |-> delayed_count,
         delay_percentage    |-> Percentage(delayed_count, total_trips),
         avg_wait_time       |-> Mean(Column(trips, "pickup_wait_time_minutes"), 10)]

\* a slip: the `if not trips` return is missing
trip_analytics_unguarded(trips) == TripAnalyticsBody(trips)

trip_analytics(trips) ==
    IF trips = <<>> THEN ZeroAnalytics ELSE TripAnalyticsBody(trips)

(***************************************************************************)
(* get_hourly_analytics, on the fetched list of trips.                     *)
(***************************************************************************)
\* a slip: the hour of a 12-hour clock
PickupHour12(trip) == fromisoformat(trip.pickup_datetime).hour % 12

PickupHour(trip) == fromisoformat(trip.pickup_datetime).hour

RECURSIVE hourly_data(_, _, _, _)
\* the dict d after the loop has taken trips[lo..hi]
hourly_data(d, trips, lo, hi) ==
    IF lo > hi THEN d
    ELSE IF lo = hi THEN DictAdd(d, PickupHour(trips[lo]), trips[lo])
    ELSE LET first == hourly_data(d, trips, lo, (lo + hi) \div 2)
         IN  IF first.keys = <<>>
             THEN hourly_data(EmptyDict, trips, (lo + hi) \div 2 + 1, hi)
             ELSE hourly_data(first, trips, (lo + hi) \div 2 + 1, hi)

HourEntry(d, hour) ==
    IF hour \in DOMAIN d.at
    THEN [hour |-> hour,
          avg_wait_time |-> BucketAvgWait(d.at[hour]),
          trip_count |-> Len(d.at[hour].trips),
          delay_percentage |-> BucketDelayPct(d.at[hour])]
    ELSE [hour |-> hour, avg_wait_time |-> 0, trip_count |-> 0,
          delay_percentage |-> 0]

\* a slip: range(1, 24)
HourRangeFrom1 == [i \in 1..(HoursPerDay - 1) |-> i]

\* for hour in range(24): result.append(...)
HourRange == [i \in 1..HoursPerDay |-> i - 1]

\* a slip: one entry per hour that has trips, none for the others
hourly_analytics_present(trips) ==
    LET d == hourly_data(EmptyDict, trips, 1, Len(trips))
    IN  [i \in 1..Len(d.keys) |-> HourEntry(d, d.keys[i])]

hourly_analytics(trips) ==
    LET d == hourly_data(EmptyDict, trips, 1, Len(trips))
    IN  [i \in 1..Len(HourRange) |-> HourEntry(d, HourRange[i])]

(***************************************************************************)
(* get_zone_analytics, on the fetched list of trips.                       *)
(***************************************************************************)
RECURSIVE zone_data(_, _, _, _)
\* the dict d after the loop has taken trips[lo..hi]
zone_data(d, trips, lo, hi) ==
    IF lo > hi THEN d
    ELSE IF lo = hi THEN DictAdd(d, trips[lo].pickup_location_id, trips[lo])
    ELSE LET first == zone_data(d, trips, lo, (lo + hi) \div 2)
         IN  IF first.keys = <<>>
             THEN zone_data(EmptyDict, trips, (lo + hi) \div 2 + 1, hi)
             ELSE zone_data(first, trips, (lo + hi) \div 2 + 1, hi)

ZoneEntry(d, location_id) ==
    [location_id |-> location_id,
     zone_name |-> <<"Zone", location_id>>,
     trip_count |-> Len(d.at[location_id].trips),
     avg_wait_time |-> BucketAvgWait(d.at[location_id]),
     delay_percentage |-> BucketDelayPct(d.at[location_id])]

\* for location_id, data in zone_data.items(): result.append(...)
ZoneEntries(d) == [i \in 1..Len(d.keys) |-> ZoneEntry(d, d.keys[i])]

\* a slip: result.sort(key=...) ascending, then result.reverse(): equal
\* trip_counts come out in the reverse of their first appearance
SortedInsertFront(sorted, e) ==
    LET ahead == Cardinality({ j \in 1..Len(sorted) :
                                 sorted[j].trip_count > e.trip_count })
    IN  SubSeq(sorted, 1, ahead) \o <<e>> \o SubSeq(sorted, ahead + 1, Len(sorted))

\* where e goes in a list already in non-increasing trip_count order: behind
\* every entry whose trip_count is at least its own (the sort is stable)
SortedInsert(sorted, e) ==
    LET ahead == Cardinality({ j \in 1..Len(sorted) :
                                 sorted[j].trip_count >= e.trip_count })
    IN  SubSeq(sorted, 1, ahead) \o <<e>> \o SubSeq(sorted, ahead + 1, Len(sorted))

RECURSIVE SortFrom(_, _, _, _)
\* sorted with result[lo..hi] put in, one by one
SortFrom(sorted, result, lo, hi) ==
    IF lo > hi THEN sorted
    ELSE IF lo = hi THEN SortedInsert(sorted, result[lo])
    ELSE LET first == SortFrom(sorted, result, lo, (lo + hi) \div 2)
         IN  IF first = <<>> THEN SortFrom(<<>>, result, (lo + hi) \div 2 + 1, hi)
             ELSE SortFrom(first, result, (lo + hi) \div 2 + 1, hi)

\* result.sort(key=lambda x: x.trip_count, reverse=True)
sort_by_trip_count(result) == SortFrom(<<>>, result, 1, Len(result))

\* result[:n]
Slice(result, n) == SubSeq(result, 1, IF Len(result) < n THEN Len(result) ELSE n)

\* a slip: the list is cut to 20 before it is sorted
zone_analytics_cut_first(trips) ==
    sort_by_trip_count(
        Slice(ZoneEntries(zone_data(EmptyDict, trips, 1, Len(trips))), TopZones))

zone_analytics(trips) ==
    Slice(sort_by_trip_count(
              ZoneEntries(zone_data(EmptyDict, trips, 1, Len(trips)))), TopZones)

(***************************************************************************)
(* The collection's operations.                                            *)
(***************************************************************************)
\* a slip: the delete matches nothing and the collection keeps its documents
delete_many_nothing(coll) == coll

delete_many(coll) == <<>>

insert_many(coll, docs) == coll \o docs

\* find().to_list(length=None)
find(coll) == coll

(***************************************************************************)
(* Requests.  A request in flight is the handler it runs and what the      *)
(* handler is resumed with at the await it is suspended at: the result of  *)
(* the operation it awaits, or (raises) the exception the operation ends   *)
(* in.  An operation that succeeds takes effect where the handler issues   *)
(* it; one that raises has no effect.  `pending` is the bag of the         *)
(* requests in flight; a request that has returned or raised is in it no   *)
(* more.                                                                   *)
(***************************************************************************)
\* an ingest request: the run of the generator its sample_data came from,
\* the store operation it awaits, and whether that operation raises
IngestRequest(call, awaited, raises) ==
    [handler |-> "ingest_taxi_data", call |-> call, awaited |-> awaited,
     raises |-> raises]

\* an aggregation request whose find returns the list
ReadRequest(handler, trips) ==
    [handler |-> handler, trips |-> trips, raises |-> FALSE]

\* a request whose find or count_documents raises
FailingRequest(handler) == [handler |-> handler, raises |-> TRUE]

\* a health request whose count_documents returns
HealthRequest == [handler |-> "health_check", raises |-> FALSE]

InFlight == BagCardinality(pending)

Requests == BagToSet(pending)

Ingesting == { r \in Requests : r.handler = "ingest_taxi_data" }

Suspend(r) == pending (+) SetToBag({r})

Resume(r) == pending (-) SetToBag({r})

NoResponse == [kind |-> "none"]

\* except Exception as e: raise HTTPException(status_code=500, detail=...);
\* detail is the handler's text, without the str(e) that follows it
ServerError(detail) == [kind |-> "error", status_code |-> 500, detail |-> detail]

\* the server starts: the collection holds what it was left with
Init ==
    /\ store \in Leftovers
    /\ response = NoResponse
    /\ ingests = 0
    /\ pending = EmptyBag
    /\ returned = 0
    /\ overlapped = FALSE

(***************************************************************************)
(* POST /api/ingest-taxi-data.                                             *)
(***************************************************************************)
\* lines 100-109: what the call-th run of the generator hands to insert_many
ProcessedData(call) ==
    LET sample_data == generate_sample_taxi_data(NumTrips, call)
    IN  [i \in 1..Len(sample_data) |-> prepare_for_mongo(sample_data[i])]

IngestResponse(processed_data) ==
    [kind |-> "ingest",
     body |-> [message |-> "Data ingestion completed",
               trips_loaded |-> Len(processed_data)]]

\* lines 97-103: the generator runs, then await delete_many({}): the handler
\* is suspended, the collection emptied unless the operation raises
ingest_taxi_data ==
    /\ ingests < MaxIngests
    /\ InFlight < MaxInFlight
    /\ ingests' = ingests + 1
    /\ overlapped' = (overlapped \/ Ingesting # {})
    /\ \E raises \in BOOLEAN :
          /\ store' = IF raises THEN store ELSE delete_many(store)
          /\ pending' = Suspend(IngestRequest(ingests + 1, "delete_many", raises))
    /\ UNCHANGED <<response, returned>>

\* lines 105-111 and 117-118: resumed after delete_many, the handler raises
\* if the operation did; else processed_data, then await insert_many: the
\* handler is suspended, the documents inserted unless the operation raises
ingest_taxi_data_insert(r) ==
    /\ r \in Ingesting
    /\ r.awaited = "delete_many"
    /\ \/ /\ r.raises
          /\ response' = ServerError("Data ingestion failed")
          /\ pending' = Resume(r)
          /\ UNCHANGED store
       \/ /\ ~r.raises
          /\ \E raises \in BOOLEAN :
                /\ store' = IF raises THEN store
                            ELSE insert_many(store, ProcessedData(r.call))
                /\ pending' = Suspend(IngestRequest(r.call, "insert_many", raises))
                                 (-) SetToBag({r})
          /\ UNCHANGED response
    /\ UNCHANGED <<ingests, returned, overlapped>>

\* lines 113-118: resumed after insert_many, the handler returns, or raises
\* if the operation did
ingest_taxi_data_return(r) ==
    /\ r \in Ingesting
    /\ r.awaited = "insert_many"
    /\ response' = IF r.raises THEN ServerError("Data ingestion failed")
                   ELSE IngestResponse(ProcessedData(r.call))
    /\ pending' = Resume(r)
    /\ returned' = IF r.raises THEN returned ELSE returned + 1
    /\ UNCHANGED <<store, ingests, overlapped>>

(***************************************************************************)
(* GET /api/analytics/overview, /hourly and /zones: await find(), then the *)
(* aggregation of the list it returned.                                    *)
(***************************************************************************)
\* the await of the handler: the handler is suspended, with the list its
\* find returns or with a find that raises
Fetch(handler) ==
    /\ InFlight < MaxInFlight
    /\ \E r \in {ReadRequest(handler, find(store)), FailingRequest(handler)} :
          pending' = Suspend(r)
    /\ UNCHANGED <<store, response, ingests, returned, overlapped>>

\* the divisions of the overview, in the order the code performs them
OverviewRaises(body) ==
    ZeroDivisionError \in {body.avg_trip_duration, body.avg_fare,
                           body.delay_percentage, body.avg_wait_time}

\* the divisions of the hourly and zone entries
EntriesRaise(body) ==
    \E i \in 1..Len(body) :
        ZeroDivisionError \in {body[i].avg_wait_time, body[i].delay_percentage}

\* lines 186-190
get_trip_analytics == Fetch("get_trip_analytics")

\* lines 190-216: resumed after find
get_trip_analytics_return(r) ==
    /\ r \in Requests
    /\ r.handler = "get_trip_analytics"
    /\ response' = IF r.raises THEN ServerError("Analytics error")
                   ELSE LET body == trip_analytics(r.trips)
                        IN  IF OverviewRaises(body)
                            THEN ServerError("Analytics error")
                            ELSE [kind |-> "overview", body |-> body]
    /\ pending' = Resume(r)
    /\ UNCHANGED <<store, ingests, returned, overlapped>>

\* lines 218-222
get_hourly_analytics == Fetch("get_hourly_analytics")

\* lines 222-261: resumed after find
get_hourly_analytics_return(r) ==
    /\ r \in Requests
    /\ r.handler = "get_hourly_analytics"
    /\ response' = IF r.raises THEN ServerError("Hourly analytics error")
                   ELSE LET body == hourly_analytics(r.trips)
                        IN  IF EntriesRaise(body)
                            THEN ServerError("Hourly analytics error")
                            ELSE [kind |-> "hourly", body |-> body]
    /\ pending' = Resume(r)
    /\ UNCHANGED <<store, ingests, returned, overlapped>>

\* lines 263-267
get_zone_analytics == Fetch("get_zone_analytics")

\* lines 267-305: resumed after find
get_zone_analytics_return(r) ==
    /\ r \in Requests
    /\ r.handler = "get_zone_analytics"
    /\ response' = IF r.raises THEN ServerError("Zone analytics error")
                   ELSE LET body == zone_analytics(r.trips)
                        IN  IF EntriesRaise(body)
                            THEN ServerError("Zone analytics error")
                            ELSE [kind |-> "zones", body |-> body]
    /\ pending' = Resume(r)
    /\ UNCHANGED <<store, ingests, returned, overlapped>>

(***************************************************************************)
(* The test endpoints.                                                     *)
(***************************************************************************)
\* GET /api/
root ==
    /\ response' = [kind |-> "root",
                    body |-> [message |-> "Ride-Hailing Analytics API"]]
    /\ UNCHANGED <<store, ingests, pending, returned, overlapped>>

\* GET /api/health, lines 313-316: await count_documents({})
health_check ==
    /\ InFlight < MaxInFlight
    /\ \E r \in {HealthRequest, FailingRequest("health_check")} :
          pending' = Suspend(r)
    /\ UNCHANGED <<store, response, ingests, returned, overlapped>>

\* lines 317-319: resumed after count_documents; a failure of the database
\* is caught and reported in the body (its "error" is str(e))
health_check_return(r) ==
    /\ r \in Requests
    /\ r.handler = "health_check"
    /\ response' = [kind |-> "health",
                    body |-> IF r.raises
                             THEN [status |-> "unhealthy", error |-> "str(e)"]
                             ELSE [status |-> "healthy", database |-> "connected"]]
    /\ pending' = Resume(r)
    /\ UNCHANGED <<store, ingests, returned, overlapped>>

Next ==
    \/ ingest_taxi_data
    \/ \E r \in Requests : ingest_taxi_data_insert(r)
    \/ \E r \in Requests : ingest_taxi_data_return(r)
    \/ get_trip_analytics
    \/ \E r \in Requests : get_trip_analytics_return(r)
    \/ get_hourly_analytics
    \/ \E r \in Requests : get_hourly_analytics_return(r)
    \/ get_zone_analytics
    \/ \E r \in Requests : get_zone_analytics_return(r)
    \/ root
    \/ health_check
    \/ \E r \in Requests : health_check_return(r)

Spec == Init /\ [][Next]_vars

(***************************************************************************)
(* The aggregations as functions of the list find() returned.  The         *)
(* collection holds any of the record lists, and up to MaxInFlight         *)
(* requests of one aggregation have fetched it; what remains of each is    *)
(* the aggregation and its return.                                         *)
(***************************************************************************)
AggregationHandlers ==
    {"get_trip_analytics", "get_hourly_analytics", "get_zone_analytics"}

InitAggregation ==
    /\ store \in RecordLists
    /\ response = NoResponse
    /\ ingests = 0
    /\ \E handler \in AggregationHandlers : \E n \in 1..MaxInFlight :
          pending = [r \in {ReadRequest(handler, find(store))} |-> n]
    /\ returned = 0
    /\ overlapped = FALSE

NextAggregation ==
    \/ \E r \in Requests : get_trip_analytics_return(r)
    \/ \E r \in Requests : get_hourly_analytics_return(r)
    \/ \E r \in Requests : get_zone_analytics_return(r)

SpecAggregation == InitAggregation /\ [][NextAggregation]_vars

(***************************************************************************)
(* What the properties below read off a record list, counted directly on   *)
(* the list and not through the aggregations.                              *)
(***************************************************************************)
Indices(trips) == 1..Len(trips)

ZonesOf(trips) == { trips[i].pickup_location_id : i \in Indices(trips) }

ZoneCount(trips, z) ==
    Cardinality({ i \in Indices(trips) : trips[i].pickup_location_id = z })

FirstSeen(trips, z) ==
    CHOOSE i \in Indices(trips) :
        /\ trips[i].pickup_location_id = z
        /\ \A j \in 1..(i - 1) : trips[j].pickup_location_id # z

\* the hour field of the stored ISO string
HourCount(trips, h) ==
    Cardinality({ i \in Indices(trips) : trips[i].pickup_datetime[4] = h })

DelayedCount(trips) == Cardinality({ i \in Indices(trips) : trips[i].is_delayed })

Listed(body) == { body[i].location_id : i \in 1..Len(body) }

TripCounts(body) == [i \in 1..Len(body) |-> body[i].trip_count]

\* the uuids of the trips in a record list
IdsOf(trips) == { trips[i].id : i \in Indices(trips) }

\* this step is the return of request r, a request of the handler
Answers(r, handler) == r.handler = handler /\ pending' = Resume(r)

(***************************************************************************)
(* Properties of the aggregations.  Each is stated of the step in which a  *)
(* request returns: of the response it returns and the list r.trips its    *)
(* find had fetched.                                                       *)
(***************************************************************************)
\* C1: the trip_counts of the hourly response add up to the total_trips of
\* the overview of the same record list (and the overview's total_trips to
\* the sum of the hourly trip_counts), the empty list included.
C1_HourlyCountsSumToTotal ==
    [][ \A r \in Requests :
          /\ (Answers(r, "get_hourly_analytics") /\ response'.kind = "hourly") =>
                SumSeq(TripCounts(response'.body))
                   = trip_analytics(r.trips).total_trips
          /\ (Answers(r, "get_trip_analytics") /\ response'.kind = "overview") =>
                response'.body.total_trips
                   = SumSeq(TripCounts(hourly_analytics(r.trips))) ]_vars

C1_Witness ==
    /\ response.kind = "hourly"
    /\ \E i \in 1..Len(response.body) : response.body[i].trip_count >= 2
    /\ \E i \in 1..Len(response.body) : response.body[i].trip_count = 0

\* C2: the hourly response has exactly 24 entries and the entry at position
\* i (from 0) has hour = i, whether or not the hour has trips.
C2_TwentyFourHoursInOrder ==
    [][ \A r \in Requests :
          (Answers(r, "get_hourly_analytics") /\ response'.kind = "hourly") =>
              /\ Len(response'.body) = 24
              /\ \A i \in 1..Len(response'.body) : response'.body[i].hour = i - 1
      ]_vars

C2_Witness ==
    /\ response.kind = "hourly"
    /\ store # <<>>
    /\ \E h \in 0..23 : HourCount(store, h) = 0

\* C3: on the empty record list no aggregation fails: the overview is all
\* zero, the hourly response is 24 all-zero entries, the zone response is
\* empty.
C3_EmptyListYieldsZeros ==
    [][ \A r \in Requests :
          (r.handler \in AggregationHandlers /\ pending' = Resume(r)
              /\ r.trips = <<>>) =>
              /\ response'.kind # "error"
              /\ response'.kind = "overview" =>
                   response'.body =
                      [total_trips |-> 0, avg_trip_duration |-> 0, avg_fare |-> 0,
                       total_revenue |-> 0, delayed_trips_count |-> 0,
                       delay_percentage |-> 0, avg_wait_time |-> 0]
              /\ response'.kind = "hourly" =>
                   /\ Len(response'.body) = 24
                   /\ \A i \in 1..Len(response'.body) :
                          /\ response'.body[i].trip_count = 0
                          /\ response'.body[i].avg_wait_time = 0
                          /\ response'.body[i].delay_percentage = 0
              /\ response'.kind = "zones" => response'.body = <<>> ]_vars

C3_Witness ==
    /\ store = <<>>
    /\ response.kind = "overview"
    /\ response.body.total_trips = 0

\* C4: the zone response has at most 20 entries, in non-increasing order of
\* trip_count, and no zone left out has more trips than a zone listed.
C4_TopTwentyByTripCount ==
    [][ \A r \in Requests :
          (Answers(r, "get_zone_analytics") /\ response'.kind = "zones") =>
              /\ Len(response'.body) <= 20
              /\ \A i \in 1..Len(response'.body) : \A j \in 1..Len(response'.body) :
                    i < j => response'.body[i].trip_count
                                >= response'.body[j].trip_count
              /\ \A z \in ZonesOf(r.trips) \ Listed(response'.body) :
                    \A i \in 1..Len(response'.body) :
                        ZoneCount(r.trips, z) <= response'.body[i].trip_count
      ]_vars

C4_Witness ==
    /\ response.kind = "zones"
    /\ Cardinality(ZonesOf(store)) > 20
    /\ response.body[1].trip_count > response.body[Len(response.body)].trip_count
    /\ \E z \in ZonesOf(store) \ Listed(response.body) : FirstSeen(store, z) < 20

\* C6: zones with equal trip_count are listed in the order in which they
\* first appear in the record list, and of such zones the ones left out by
\* the cut to 20 are the ones that appear last.
C6_TiesInFirstAppearanceOrder ==
    [][ \A r \in Requests :
          (Answers(r, "get_zone_analytics") /\ response'.kind = "zones") =>
              /\ \A i \in 1..Len(response'.body) : \A j \in 1..Len(response'.body) :
                    (i < j /\ response'.body[i].trip_count
                                 = response'.body[j].trip_count)
                       => FirstSeen(r.trips, response'.body[i].location_id)
                            < FirstSeen(r.trips, response'.body[j].location_id)
              /\ \A z \in ZonesOf(r.trips) \ Listed(response'.body) :
                    \A i \in 1..Len(response'.body) :
                        response'.body[i].trip_count = ZoneCount(r.trips, z)
                           => FirstSeen(r.trips, response'.body[i].location_id)
                                < FirstSeen(r.trips, z) ]_vars

C6_Witness ==
    /\ response.kind = "zones"
    /\ \E z \in ZonesOf(store) \ Listed(response.body) :
          ZoneCount(store, z) = response.body[Len(response.body)].trip_count
    /\ \E i \in 1..Len(response.body) : \E j \in 1..Len(response.body) :
          /\ i < j
          /\ response.body[i].trip_count = response.body[j].trip_count
          /\ response.body[i].location_id > response.body[j].location_id

\* C7: the overview's delay_percentage lies in [0, 100]; delayed_trips_count
\* is the number of records with is_delayed true and never exceeds
\* total_trips; delay_percentage is 0 when total_trips is 0.
C7_DelayPercentageInRange ==
    [][ \A r \in Requests :
          (Answers(r, "get_trip_analytics") /\ response'.kind = "overview") =>
              /\ response'.body.delay_percentage >= 0
              /\ response'.body.delay_percentage <= 1000
              /\ response'.body.delayed_trips_count = DelayedCount(r.trips)
              /\ response'.body.delayed_trips_count <= response'.body.total_trips
              /\ response'.body.total_trips = 0 =>
                    response'.body.delay_percentage = 0 ]_vars

C7_Witness ==
    /\ response.kind = "overview"
    /\ response.body.delayed_trips_count > 0
    /\ response.body.delayed_trips_count < response.body.total_trips
    /\ response.body.delayed_trips_count * 2 > response.body.total_trips

\* C9: with at most 20 distinct pickup zones in the record list the zone
\* response has exactly one entry per zone present, each with the number of
\* records of its zone as trip_count, and the trip_counts add up to the
\* number of records.
C9_AllZonesListedUpToTwenty ==
    [][ \A r \in Requests :
          (Answers(r, "get_zone_analytics") /\ response'.kind = "zones"
              /\ Cardinality(ZonesOf(r.trips)) <= 20) =>
              /\ Listed(response'.body) = ZonesOf(r.trips)
              /\ Len(response'.body) = Cardinality(ZonesOf(r.trips))
              /\ \A i \in 1..Len(response'.body) :
                    response'.body[i].trip_count
                       = ZoneCount(r.trips, response'.body[i].location_id)
              /\ SumSeq(TripCounts(response'.body)) = Len(r.trips) ]_vars

C9_Witness ==
    /\ response.kind = "zones"
    /\ Cardinality(ZonesOf(store)) = 20
    /\ Len(store) > 20

\* C10: the trip_count of hourly entry h is the number of records whose
\* pickup hour is h, and an hour without records reports 0 for trip_count,
\* avg_wait_time and delay_percentage.
C10_HourlyCountsPerHour ==
    [][ \A r \in Requests :
          (Answers(r, "get_hourly_analytics") /\ response'.kind = "hourly") =>
              \A h \in 0..23 :
                  /\ h + 1 \in 1..Len(response'.body)
                  /\ response'.body[h + 1].trip_count = HourCount(r.trips, h)
                  /\ HourCount(r.trips, h) = 0 =>
                        /\ response'.body[h + 1].avg_wait_time = 0
                        /\ response'.body[h + 1].delay_percentage = 0 ]_vars

C10_Witness ==
    /\ response.kind = "hourly"
    /\ HourCount(store, 23) >= 2
    /\ HourCount(store, 22) = 0
    /\ HourCount(store, 11) = 1

(***************************************************************************)
(* Properties of the generator and of ingestion, under Spec.               *)
(***************************************************************************)
\* the trips of the store that a run of the generator under this server made
Generated(trips) ==
    { i \in Indices(trips) : generator_run(trips[i].id) >= 1 }

\* C5: in every stored trip the generator produced, is_delayed holds exactly
\* when the stored pickup_wait_time_minutes is greater than 10 (100 tenths).
C5_DelayedIffStoredWaitOverTen ==
    \A i \in Generated(store) :
        store[i].is_delayed <=> (store[i].pickup_wait_time_minutes > 100)

\* the ingest requests that have raised
Failed == ingests - returned - Cardinality(Ingesting)

\* C11: after ingest requests that ran one at a time and all returned, the
\* store holds the trips the last one generated and no others, none of them
\* twice; it holds as many as the trips_loaded an ingest returns, and that
\* is 1000.
C11_StoreIsLastBatchOfThousand ==
    /\ response.kind = "ingest" => response.body.trips_loaded = 1000
    /\ (~overlapped /\ ingests >= 1 /\ returned = ingests) =>
          /\ IdsOf(store) = { uuid4(ingests, i) : i \in 1..1000 }
          /\ Len(store) = 1000

C11_Witness ==
    /\ ~overlapped
    /\ ingests >= 2
    /\ returned = ingests
    /\ response.kind = "ingest"
    /\ response.body.trips_loaded = Len(store)

\* the record list is the batch of one ingest request, whole and once
IsOneBatch(trips) ==
    /\ Len(trips) = NumTrips
    /\ \E call \in 1..ingests :
          IdsOf(trips) = { uuid4(call, i) : i \in 1..NumTrips }

\* C12: with requests interleaved at their awaits ingestion is atomic.  Once
\* an ingest has returned (and none has raised), the list the find of an
\* analytics request returns is one whole batch, never the empty collection
\* between delete_many and insert_many; and when no ingest is in flight any
\* more the collection is one whole batch of 1000, not several.
C12_IngestionAtomic ==
    [][ /\ \A handler \in AggregationHandlers :
              (pending' = Suspend(ReadRequest(handler, find(store)))
                  /\ returned >= 1 /\ Failed = 0)
                 => IsOneBatch(find(store))
        /\ (Ingesting' = {} /\ returned' >= 1 /\ Failed' = 0)
              => (IsOneBatch(store') /\ Len(store') = 1000) ]_vars

====
